---- MODULE Spec2Model ----
(***************************************************************************)
(* Model of downloads-organizer: the watcher (debounce, stability check,   *)
(* throttle, periodic sweep, pipeline invocation) of watcher.py and the    *)
(* relocation engine of media_organizer.py / pdf_organizer.py / utils.py.  *)
(*                                                                         *)
(* The specifications share the module's variables:                        *)
(*   Spec     - the watcher process and an independent batch run;          *)
(*   SpecFS   - pipeline runs relocating files on a filesystem;            *)
(*   SpecFn   - the pure routines (date resolution, classification,        *)
(*              event handling, safe_move) applied to one input drawn      *)
(*              from a bounded set;                                        *)
(*   SpecLock - processes acquiring and releasing utils.ProcessLock;       *)
(*   SpecStop - the watcher from its start to the exit of its process;     *)
(*   SpecLive - the watcher left running, under fair scheduling.           *)
(* Each leaves the others' variables unchanged.                            *)
(***************************************************************************)
EXTENDS Integers, Sequences, FiniteSets, TLC

VARIABLES
    now,            \* wall clock, seconds (time.time())
    wf,             \* watched-folder files: state, size, mtime
    pending_files,  \* DownloadsHandler.pending_files
    thr,            \* debounce timer threads (process_after_debounce)
    sweep,          \* the periodic_scan thread
    last_run,       \* last_pdf_run / last_media_run
    trigs,          \* history: every trigger that reached the throttle gate
    batch,          \* an independently started batch run (cli pdf / media)
    evCount,        \* history: number of filesystem events delivered
    fs,             \* the filesystem: path -> file, for the paths that exist
    dirs,           \* the archive folders created so far (mkdir)
    run,            \* the pipeline runs (media_organizer.run / pdf_organizer.run)
    results,        \* history: the result of every relocation attempt, per run
    faults,         \* history: number of I/O faults injected so far
    overlap,        \* history: two runs have been active at the same time
    arrived,        \* history: number of files that arrived after the start
    doc,            \* the file a pure routine is applied to
    out,            \* what the routine returned
    wstate,         \* the watcher process: running, stopped, exited
    lock_file,      \* the inode at ProcessLock.lock_file, 0 when there is none
    flocks,         \* inode -> the process holding flock() on it, 0 for none
    plock              \* the ProcessLock object of each process

wvars == <<now, wf, pending_files, thr, sweep, last_run, trigs, batch, evCount>>
fvars == <<fs, dirs, run, results, faults, overlap, arrived>>
vars == <<now, wf, pending_files, thr, sweep, last_run, trigs, batch, evCount,
          fs, dirs, run, results, faults, overlap, arrived, doc, out,
          wstate, lock_file, flocks, plock>>
pvars == <<doc, out>>
lvars == <<lock_file, flocks, plock>>
xvars == <<wstate, lock_file, flocks, plock>>

----------------------------------------------------------------------------
(* Program constants (config.py)                                           *)

DEBOUNCE_SECONDS == 5
MIN_RUN_INTERVAL == 10

(* Bounds of the model                                                     *)

Epoch == 10          \* clock value at watcher start (time.time() >> 0)
TickSeconds == 10    \* granularity of the modelled clock
MaxTime == 30        \* the clock stops here
MaxThreads == 2      \* timer threads ever started
MaxEvents == 2       \* filesystem events ever delivered
MaxSize == 2         \* a download grows up to this size
MaxSweeps == 1       \* iterations of the periodic_scan loop

Kinds == {"pdf", "media"}
WFiles == {"a.pdf", "b.jpg"}
Tids == 1..MaxThreads

\* the names a watched folder can hold in the liveness specification: two
\* PDFs, one with its extension in upper case
LiveFiles == {"a.pdf", "c.PDF"}

\* Path.suffix
Suffix(f) == IF f = "a.pdf" THEN ".pdf" ELSE IF f = "c.PDF" THEN ".PDF" ELSE ".jpg"

\* str.lower and str.upper, on the suffixes
Lower(x) == IF x = ".PDF" THEN ".pdf" ELSE x
Upper(x) == IF x = ".pdf" THEN ".PDF" ELSE IF x = ".jpg" THEN ".JPG" ELSE x

\* _process_file_event: the organizer kind chosen from the extension,
\* "ext = file_path.suffix.lower()"
FileKind(f) == IF Lower(Suffix(f)) = ".pdf" THEN "pdf" ELSE "media"

\* periodic_scan: folder.glob("*.pdf") for the PDFs, folder.glob(f"*{ext}")
\* and folder.glob(f"*{ext.upper()}") for the media; glob compares case
Globbed(kind, f) ==
    IF kind = "pdf" THEN Suffix(f) = ".pdf"
    ELSE Suffix(f) \in {".jpg", Upper(".jpg")}

NoFile == "-"

----------------------------------------------------------------------------
(* Initial state: DownloadsHandler.__init__, module globals of watcher.py  *)

FreeThread ==
    [pc |-> "free", f |-> NoFile, size1 |-> 0, ctime |-> 0,
     calls |-> 0, verdict |-> "none", dups |-> 0]

\* a timer thread that has returned; its locals are gone
Finished(th, verdict) ==
    [th EXCEPT !.pc = "done", !.verdict = verdict, !.size1 = 0, !.ctime = 0]

WInit ==
    /\ now = Epoch
    /\ wf = [f \in WFiles |-> [st |-> "none", size |-> 0, mtime |-> 0]]
    /\ pending_files = {}
    /\ thr = [t \in Tids |-> FreeThread]
    /\ sweep = [pc |-> "sleep",
                ctime |-> 0, kind |-> "pdf", pdfs |-> FALSE, media |-> FALSE, n |-> 0]
    /\ last_run = [k \in Kinds |-> 0]
    /\ trigs = <<>>
    /\ batch = "idle"
    /\ evCount = 0

----------------------------------------------------------------------------
(* Environment: the clock and the downloads landing in the watched folder  *)

\* Time passes in ticks.  A time.sleep() of a thread is a step of that thread
\* that may be taken at any later point: how far the clock has moved when the
\* sleep returns is left open, so every real schedule is covered.
Tick ==
    /\ now < MaxTime
    /\ now' = now + TickSeconds
    /\ UNCHANGED <<wf, pending_files, thr, sweep, last_run, trigs, batch, evCount>>
    /\ UNCHANGED fvars
    /\ UNCHANGED pvars
    /\ UNCHANGED xvars

\* a download (or its temporary file) appears
Arrive(f) ==
    /\ wf[f].st = "none"
    /\ wf' = [wf EXCEPT ![f] = [st |-> "present", size |-> 1, mtime |-> now]]
    /\ UNCHANGED <<now, pending_files, thr, sweep, last_run, trigs, batch, evCount>>
    /\ UNCHANGED fvars
    /\ UNCHANGED pvars
    /\ UNCHANGED xvars

\* the browser appends to a download still in progress
Grow(f) ==
    /\ wf[f].st = "present"
    /\ wf[f].size < MaxSize
    /\ wf' = [wf EXCEPT ![f].size = @ + 1, ![f].mtime = now]
    /\ UNCHANGED <<now, pending_files, thr, sweep, last_run, trigs, batch, evCount>>
    /\ UNCHANGED fvars
    /\ UNCHANGED pvars
    /\ UNCHANGED xvars

\* the file is renamed away or deleted by somebody else
Vanish(f) ==
    /\ wf[f].st = "present"
    /\ wf' = [wf EXCEPT ![f] = [st |-> "gone", size |-> 0, mtime |-> 0]]
    /\ UNCHANGED <<now, pending_files, thr, sweep, last_run, trigs, batch, evCount>>
    /\ UNCHANGED fvars
    /\ UNCHANGED pvars
    /\ UNCHANGED xvars

----------------------------------------------------------------------------
(* DownloadsHandler: events and debounce timer threads                     *)

\* a guard that lets every event arm a timer
NeverPending(f) == FALSE

\* schedule_processing: the guard "if str(file_key) in self.pending_files"
AlreadyPending(f) == f \in pending_files

\* a stability check that accepts every pair of samples
AlwaysStable(size1, size2) == TRUE

\* _wait_for_stable_size: "return size1 == size2"
StableSize(size1, size2) == size1 = size2

\* on_created / on_moved -> _process_file_event -> schedule_processing
FsEvent(f) ==
    /\ wstate = "running"
    /\ evCount < MaxEvents
    /\ wf[f].st # "none"
    /\ evCount' = evCount + 1
    /\ IF wf[f].st # "present"
       THEN \* "if not file_path.is_file(): return"
            UNCHANGED <<pending_files, thr>>
       ELSE IF AlreadyPending(f)
            THEN \* the event is dropped; the armed thread remembers it
                 /\ thr' = [t \in Tids |->
                              IF thr[t].pc = "debounce" /\ thr[t].f = f
                              THEN [thr[t] EXCEPT !.dups = 1]
                              ELSE thr[t]]
                 /\ UNCHANGED pending_files
            ELSE \E t \in Tids :
                 /\ thr[t].pc = "free"
                 /\ \A u \in Tids : u < t => thr[u].pc # "free"
                 /\ pending_files' = pending_files \cup {f}
                 /\ thr' = [thr EXCEPT ![t] =
                              [FreeThread EXCEPT !.pc = "debounce", !.f = f]]
    /\ UNCHANGED <<now, wf, sweep, last_run, trigs, batch>>
    /\ UNCHANGED fvars
    /\ UNCHANGED pvars
    /\ UNCHANGED xvars

\* process_after_debounce: time.sleep(config.DEBOUNCE_SECONDS) returned;
\* "with self.lock: self.pending_files.discard(str(file_key))"
DebounceWake(t) ==
    /\ thr[t].pc = "debounce"
    /\ pending_files' = pending_files \ {thr[t].f}
    /\ thr' = [thr EXCEPT ![t].pc = "exists"]
    /\ UNCHANGED <<now, wf, sweep, last_run, trigs, batch, evCount>>
    /\ UNCHANGED fvars
    /\ UNCHANGED pvars
    /\ UNCHANGED xvars

\* "if not file_path.exists(): return"
CheckExists(t) ==
    /\ thr[t].pc = "exists"
    /\ thr' = IF wf[thr[t].f].st = "present"
              THEN [thr EXCEPT ![t].pc = "stat1"]
              ELSE [thr EXCEPT ![t] = Finished(thr[t], "vanished")]
    /\ UNCHANGED <<now, wf, pending_files, sweep, last_run, trigs, batch, evCount>>
    /\ UNCHANGED fvars
    /\ UNCHANGED pvars
    /\ UNCHANGED xvars

\* _wait_for_stable_size: size1 = stat().st_size; time.sleep(1)
Stat1(t) ==
    /\ thr[t].pc = "stat1"
    /\ thr' = IF wf[thr[t].f].st = "present"
              THEN [thr EXCEPT ![t].pc = "stabsleep",
                               ![t].size1 = wf[thr[t].f].size]
              ELSE \* OSError -> return False
                   [thr EXCEPT ![t] = Finished(thr[t], "vanished")]
    /\ UNCHANGED <<now, wf, pending_files, sweep, last_run, trigs, batch, evCount>>
    /\ UNCHANGED fvars
    /\ UNCHANGED pvars
    /\ UNCHANGED xvars

\* _wait_for_stable_size: size2 = stat().st_size; return size1 == size2
Stat2(t) ==
    /\ thr[t].pc = "stabsleep"
    /\ thr' = IF wf[thr[t].f].st # "present"
              THEN [thr EXCEPT ![t] = Finished(thr[t], "vanished")]
              ELSE LET \* history: what the two samples showed
                       seen == IF thr[t].size1 = wf[thr[t].f].size
                               THEN "stable" ELSE "changing"
                   IN IF StableSize(thr[t].size1, wf[thr[t].f].size)
                      THEN [thr EXCEPT ![t].pc = "ro_time", ![t].verdict = seen,
                                       ![t].size1 = 0]
                      ELSE [thr EXCEPT ![t] = Finished(thr[t], seen)]
    /\ UNCHANGED <<now, wf, pending_files, sweep, last_run, trigs, batch, evCount>>
    /\ UNCHANGED fvars
    /\ UNCHANGED pvars
    /\ UNCHANGED xvars

----------------------------------------------------------------------------
(* _run_organizer: the throttle gate and the pipeline invocation           *)

\* a gate that admits every trigger
NeverThrottled(kind, current_time) == FALSE

\* "if current_time - last_pdf_run < config.MIN_RUN_INTERVAL: return"
Throttled(kind, current_time) == current_time - last_run[kind] < MIN_RUN_INTERVAL

\* history: the files of `kind` in the watched folders when a trigger
\* reaches the gate
InFolder(kind) == {f \in DOMAIN wf : wf[f].st = "present" /\ FileKind(f) = kind}

\* the body of "with organizer_lock:"; the lock is released when it ends,
\* before the pipeline is called
GateEffect(kind, current_time) ==
    IF Throttled(kind, current_time)
    THEN /\ trigs' = Append(trigs, [kind |-> kind, time |-> current_time,
                                    admitted |-> FALSE, state |-> wstate,
                                    saw |-> InFolder(kind)])
         /\ UNCHANGED last_run
    ELSE /\ trigs' = Append(trigs, [kind |-> kind, time |-> current_time,
                                    admitted |-> TRUE, state |-> wstate,
                                    saw |-> InFolder(kind)])
         /\ last_run' = [last_run EXCEPT ![kind] = current_time]

\* a pipeline run of `kind` returns: the files it organized leave the folder
RunEffect(kind) ==
    \E S \in SUBSET {f \in DOMAIN wf : wf[f].st = "present" /\ FileKind(f) = kind} :
        wf' = [f \in DOMAIN wf |-> IF f \in S THEN [st |-> "gone", size |-> 0, mtime |-> 0] ELSE wf[f]]

\* "current_time = time.time()"
ReadTime(t) ==
    /\ thr[t].pc = "ro_time"
    /\ thr' = [thr EXCEPT ![t].pc = "ro_gate", ![t].ctime = now, ![t].calls = @ + 1]
    /\ UNCHANGED <<now, wf, pending_files, sweep, last_run, trigs, batch, evCount>>
    /\ UNCHANGED fvars
    /\ UNCHANGED pvars
    /\ UNCHANGED xvars

Gate(t) ==
    /\ thr[t].pc = "ro_gate"
    /\ GateEffect(FileKind(thr[t].f), thr[t].ctime)
    /\ thr' = [thr EXCEPT ![t] =
                 IF Throttled(FileKind(thr[t].f), thr[t].ctime)
                 THEN Finished(thr[t], thr[t].verdict)
                 ELSE [thr[t] EXCEPT !.pc = "running"]]
    /\ UNCHANGED <<now, wf, pending_files, sweep, batch, evCount>>
    /\ UNCHANGED fvars
    /\ UNCHANGED pvars
    /\ UNCHANGED xvars

\* _run_pdf_organizer / _run_media_organizer returned
RunReturn(t) ==
    /\ thr[t].pc = "running"
    /\ RunEffect(FileKind(thr[t].f))
    /\ thr' = [thr EXCEPT ![t] = Finished(thr[t], thr[t].verdict)]
    /\ UNCHANGED <<now, pending_files, sweep, last_run, trigs, batch, evCount>>
    /\ UNCHANGED fvars
    /\ UNCHANGED pvars
    /\ UNCHANGED xvars

----------------------------------------------------------------------------
(* periodic_scan: the long-lived sweep thread                              *)

SweepId == MaxThreads + 1

\* "min_age = config.DEBOUNCE_SECONDS + 5"
MinAgeExtra == 5
MinAge == DEBOUNCE_SECONDS + MinAgeExtra

\* the files of `kind` the scan collects: "current_time - f.stat().st_mtime > min_age"
OldFiles(kind, current_time) ==
    {f \in DOMAIN wf : /\ Globbed(kind, f)
                    /\ wf[f].st = "present"
                    /\ current_time - wf[f].mtime > MinAge}

SweepSleep(s) ==
    [s EXCEPT !.pc = "sleep", !.ctime = 0,
              !.kind = "pdf", !.pdfs = FALSE, !.media = FALSE]

\* what the loop body does after the pdf branch / after the media branch
SweepAfter(s) ==
    IF s.kind = "pdf" /\ s.media
    THEN [s EXCEPT !.pc = "ro_time", !.kind = "media"]
    ELSE SweepSleep(s)

\* time.sleep(config.PERIODIC_SCAN_INTERVAL) returned; current_time is read
\* and all_pdfs / all_media are collected
Scan(counted) ==
    LET pdfs == OldFiles("pdf", now) # {}
        media == OldFiles("media", now) # {}
        s == [counted EXCEPT !.pdfs = pdfs, !.media = media]
    IN IF pdfs THEN [s EXCEPT !.pc = "ro_time", !.kind = "pdf"]
       ELSE IF media THEN [s EXCEPT !.pc = "ro_time", !.kind = "media"]
       ELSE SweepSleep(s)

SweepScan ==
    /\ sweep.pc = "sleep"
    /\ sweep.n < MaxSweeps
    /\ sweep' = Scan([sweep EXCEPT !.n = @ + 1])
    /\ UNCHANGED <<now, wf, pending_files, thr, last_run, trigs, batch, evCount>>
    /\ UNCHANGED fvars
    /\ UNCHANGED pvars
    /\ UNCHANGED xvars

SweepReadTime ==
    /\ sweep.pc = "ro_time"
    /\ sweep' = [sweep EXCEPT !.pc = "ro_gate", !.ctime = now]
    /\ UNCHANGED <<now, wf, pending_files, thr, last_run, trigs, batch, evCount>>
    /\ UNCHANGED fvars
    /\ UNCHANGED pvars
    /\ UNCHANGED xvars

SweepGate ==
    /\ sweep.pc = "ro_gate"
    /\ GateEffect(sweep.kind, sweep.ctime)
    /\ sweep' = IF Throttled(sweep.kind, sweep.ctime)
                THEN SweepAfter(sweep)
                ELSE [sweep EXCEPT !.pc = "running"]
    /\ UNCHANGED <<now, wf, pending_files, thr, batch, evCount>>
    /\ UNCHANGED fvars
    /\ UNCHANGED pvars
    /\ UNCHANGED xvars

SweepReturn ==
    /\ sweep.pc = "running"
    /\ RunEffect(sweep.kind)
    /\ sweep' = SweepAfter(sweep)
    /\ UNCHANGED <<now, pending_files, thr, last_run, trigs, batch, evCount>>
    /\ UNCHANGED fvars
    /\ UNCHANGED pvars
    /\ UNCHANGED xvars

----------------------------------------------------------------------------
(* The watcher left running: the clock and the sweep loop without end      *)

\* a file has been covered: a trigger of its kind was admitted at the gate
\* while the file was in the folder
Covered(f) == \E i \in DOMAIN trigs : trigs[i].admitted /\ f \in trigs[i].saw

\* The history kept over an endless run: for each file still in the folder,
\* the first trigger that covered it, without its time.
Forget(h) ==
    LET first(i) == \E f \in DOMAIN wf :
                       /\ wf[f].st = "present"
                       /\ h[i].admitted /\ f \in h[i].saw
                       /\ \A j \in 1..(i - 1) : ~(h[j].admitted /\ f \in h[j].saw)
        kept == {i \in DOMAIN h : first(i)}
        Build[n \in 0..Len(h)] ==
            IF n = 0 THEN <<>>
            ELSE IF n \in kept THEN Append(Build[n - 1], [h[n] EXCEPT !.time = 0])
                 ELSE Build[n - 1]
    IN Build[Len(h)]

\* the periodic_scan loop after its first MaxSweeps iterations
SweepAgain ==
    /\ sweep.pc = "sleep"
    /\ sweep.n = MaxSweeps
    /\ sweep' = Scan(sweep)
    /\ trigs' = Forget(trigs)
    /\ UNCHANGED <<now, wf, pending_files, thr, last_run, batch, evCount>>
    /\ UNCHANGED fvars
    /\ UNCHANGED pvars
    /\ UNCHANGED xvars

\* a time stamp one tick further in the past; 0 stands for every stamp
\* older than the clock's range
Older(stamp) == IF stamp >= TickSeconds THEN stamp - TickSeconds ELSE 0

\* The clock without end: once it shows MaxTime, a tick moves every stamp
\* one tick into the past instead.  A thread does not stay between
\* "current_time = time.time()" and the gate for two ticks, so that the
\* differences the gate and the scan compute stay exact.
Elapse ==
    /\ now = MaxTime
    /\ \A t \in Tids : thr[t].pc = "ro_gate" => thr[t].ctime >= 2 * TickSeconds
    /\ sweep.pc = "ro_gate" => sweep.ctime >= 2 * TickSeconds
    /\ wf' = [f \in DOMAIN wf |-> [wf[f] EXCEPT !.mtime = Older(@)]]
    /\ last_run' = [k \in Kinds |-> Older(last_run[k])]
    /\ thr' = [t \in Tids |-> [thr[t] EXCEPT !.ctime = Older(@)]]
    /\ sweep' = [sweep EXCEPT !.ctime = Older(@)]
    /\ trigs' = Forget(trigs)
    /\ UNCHANGED <<now, pending_files, batch, evCount>>
    /\ UNCHANGED fvars
    /\ UNCHANGED pvars
    /\ UNCHANGED xvars

----------------------------------------------------------------------------
(* run: the end of the watcher process                                     *)

\* "except KeyboardInterrupt: observer.stop()": no more events are
\* dispatched; the timer threads and the sweep thread are not told
ObserverStop ==
    /\ wstate = "running"
    /\ wstate' = "stopped"
    /\ UNCHANGED lvars
    /\ UNCHANGED wvars
    /\ UNCHANGED fvars
    /\ UNCHANGED pvars

\* "observer.join()" has returned and run() with it: the interpreter exits
\* and its daemon threads (timers, sweep) end where they are
ProcessExit ==
    /\ wstate = "stopped"
    /\ wstate' = "exited"
    /\ thr' = [t \in Tids |-> IF thr[t].pc \in {"free", "done"} THEN thr[t]
                              ELSE Finished(thr[t], "killed")]
    /\ pending_files' = {}
    /\ sweep' = [SweepSleep(sweep) EXCEPT !.pc = "exited"]
    /\ UNCHANGED <<now, wf, last_run, trigs, batch, evCount>>
    /\ UNCHANGED lvars
    /\ UNCHANGED fvars
    /\ UNCHANGED pvars

----------------------------------------------------------------------------
(* An independently started batch run: cli.main -> pdf_organizer.run or    *)
(* media_organizer.run.  Neither run() acquires utils.ProcessLock.         *)

BatchStart(kind) ==
    /\ batch = "idle"
    /\ batch' = kind
    /\ UNCHANGED <<now, wf, pending_files, thr, sweep, last_run, trigs, evCount>>
    /\ UNCHANGED fvars
    /\ UNCHANGED pvars
    /\ UNCHANGED xvars

BatchReturn ==
    /\ batch \in Kinds
    /\ RunEffect(batch)
    /\ batch' = "idle"
    /\ UNCHANGED <<now, pending_files, thr, sweep, last_run, trigs, evCount>>
    /\ UNCHANGED fvars
    /\ UNCHANGED pvars
    /\ UNCHANGED xvars

----------------------------------------------------------------------------
\* the pipeline runs in progress inside the watcher process
WatcherRuns ==
    {t \in Tids : thr[t].pc = "running"}
        \cup (IF sweep.pc = "running" THEN {SweepId} ELSE {})

RunKind(w) == IF w = SweepId THEN sweep.kind ELSE FileKind(thr[w].f)

----------------------------------------------------------------------------
(* The filesystem the pipelines work on                                    *)

MaxFaults == 1       \* I/O faults injected in one behaviour
MaxArrivals == 1     \* files that arrive while the runs are in progress

RunIds == {1, 2}     \* two pipeline runs, free to interleave

\* A path is a folder and a file name; a name is a stem (a sequence of
\* tokens, so that prefixes and suffixes can be added) and an extension.
Path(dir, name) == [dir |-> dir, name |-> name]
Name(stem, ext) == [stem |-> stem, ext |-> ext]
Folder(root, sub) == [root |-> root, sub |-> sub]

\* config.SOURCE_FOLDERS, config.MEDIA_BASE_FOLDER, config.TAX_BASE_FOLDER
SourceRoots == <<"Downloads", "Desktop">>
MediaRoot == "Media"
TaxRoot == "Tax"

\* config.ALL_MEDIA_EXTENSIONS and config.PDF_EXTENSION, one of each
MediaExts == {"jpg"}
PdfExt == "pdf"

\* the "_N" appended to a stem
CounterTok(k) == ToString(k)

Exists(p) == p \in DOMAIN fs
WriteFile(f, p, file) == [q \in DOMAIN f \cup {p} |-> IF q = p THEN file ELSE f[q]]
RemoveFile(f, p) == [q \in DOMAIN f \ {p} |-> f[q]]

\* a truncated copy
Partial == [content |-> "part", date |-> "-"]

\* st_size: the complete files of the model have one size, a truncated copy
\* is shorter
SizeOf(file) == IF file.content = "part" THEN 0 ELSE 1

\* get_md5 / utils.get_file_checksum
Md5(file) == file.content

\* utils.files_are_identical
FilesAreIdentical(p, q) ==
    /\ Exists(p) /\ Exists(q)
    /\ SizeOf(fs[p]) = SizeOf(fs[q])
    /\ Md5(fs[p]) = Md5(fs[q])

----------------------------------------------------------------------------
(* media_organizer: planning                                               *)

\* get_media_date: the date the file carries (metadata or mtime; shutil.copy2
\* keeps both); when the file cannot be read, the current date
CurrentDate == "today"
GetMediaDate(p) == IF Exists(p) THEN fs[p].date ELSE CurrentDate

\* get_destination_folder: base / year / month / type
MediaDestinationFolder(date) == Folder(MediaRoot, date)

\* format_filename: f"{timestamp}_{original_name}"
FormatFilename(date, name) == [name EXCEPT !.stem = <<date>> \o @]

Suffixed(name, k) == [name EXCEPT !.stem = Append(@, CounterTok(k))]

\* the first counter from `first` on whose suffixed name is free (one of the
\* first n + 1 is, with n files on disk)
FirstFree(folder, name, first) ==
    LET free == {k \in first..(first + Cardinality(DOMAIN fs)) :
                    ~Exists(Path(folder, Suffixed(name, k)))}
    IN CHOOSE k \in free : \A j \in free : k <= j

\* a resolver that returns the wanted name, taken or not
NoSuffix(folder, name) == Path(folder, name)

\* get_unique_filename: the name itself when free, else stem_1, stem_2, ...
GetUniqueFilename(folder, name) ==
    IF ~Exists(Path(folder, name))
    THEN Path(folder, name)
    ELSE Path(folder, Suffixed(name, FirstFree(folder, name, 1)))

\* utils.get_unique_path: the path itself when free, else stem_2, stem_3, ...
GetUniquePath(p) ==
    IF ~Exists(p)
    THEN p
    ELSE Path(p.dir, Suffixed(p.name, FirstFree(p.dir, p.name, 2)))

----------------------------------------------------------------------------
(* Pipeline runs                                                           *)

NoPath == Path(Folder("-", "-"), Name(<<>>, "-"))

\* a run: the pass it is in, the files it has still to visit, and the
\* attempt in progress: source, destination, and what the attempt saw (busy:
\* the computed destination was taken; dup: by a file identical to the
\* source; over: what the write replaced; made: building the destination
\* path created its folder)
IdleRun ==
    [kind |-> "none", phase |-> "idle", dry |-> FALSE, after |-> {}, todo |-> <<>>,
     pc |-> "next", src |-> NoPath, dst |-> NoPath,
     busy |-> FALSE, dup |-> FALSE, content |-> "-", over |-> "-", made |-> FALSE]

Active(r) == run[r].phase \in {"source", "audit"}

ContentAt(f, p) == IF p \in DOMAIN f THEN f[p].content ELSE "-"

\* the contents of the files: media, statements of a known type, documents
\* of a category
MediaContents == {"c1", "c2"}
StatementContents == {"s1", "s2"}
TopicContents == {"g1", "g2"}

\* the tally of media_organizer.run an attempt is added to: the source pass
\* keeps the moved files and counts the errors, scan_and_audit_folders keeps
\* the moved files only
MediaTally(pass, status) ==
    IF status \in {"moved", "would_move"}
    THEN (IF pass = "source" THEN "organized" ELSE "moved_files")
    ELSE IF status = "error" /\ pass = "source" THEN "errors"
    ELSE "-"

\* the list of process_downloads a file is added to; none when an exception
\* ends the loop
PdfTally(content, status) ==
    IF status = "raised" THEN "-"
    ELSE IF status = "none" THEN "uncategorized_files"
    ELSE IF content \in StatementContents THEN "moved_files"
    ELSE "categorized_files"

\* the result dictionary of an attempt, with what the attempt left on disk
Result(rec, status, why, disk) ==
    [kind |-> rec.kind, pass |-> rec.phase, dry |-> rec.dry,
     tally |-> IF rec.kind = "media" THEN MediaTally(rec.phase, status)
               ELSE PdfTally(rec.content, status),
     src |-> rec.src, dst |-> rec.dst,
     status |-> status, why |-> why, busy |-> rec.busy, dup |-> rec.dup,
     content |-> rec.content,
     over |-> rec.over, made |-> rec.made,
     srcAfter |-> ContentAt(disk, rec.src), dstAfter |-> ContentAt(disk, rec.dst)]

\* the attempt described by rec ends with `status`, leaving `disk`
Finish(r, rec, status, why, disk) ==
    /\ results' = [results EXCEPT ![r] = @ \cup {Result(rec, status, why, disk)}]
    /\ run' = [run EXCEPT ![r] = [rec EXCEPT !.pc = "next"]]

\* the files of S in the order a listing returns them
RECURSIVE Listing(_)
Listing(S) ==
    IF S = {} THEN <<>>
    ELSE LET p == CHOOSE q \in S : TRUE IN <<p>> \o Listing(S \ {p})

\* the files with extension in exts under root
FilesUnder(root, exts) ==
    Listing({p \in DOMAIN fs : p.dir.root = root /\ p.name.ext \in exts})

\* config.SOURCE_FOLDERS is scanned in order
SourceFiles(exts) == FilesUnder(SourceRoots[1], exts) \o FilesUnder(SourceRoots[2], exts)

\* a run begins: the files it will visit are listed once, up front.  Runs
\* begin in the order of their ids.  Nothing in the program keeps two runs
\* apart; the model lets PDF runs overlap any run and starts a media run
\* only when no other run is active (two media runs in step with each other
\* are beyond what can be enumerated).
Begin(r, kind, dry, files) ==
    /\ run[r].phase = "idle"
    /\ \A o \in RunIds : o < r => run[o].phase # "idle"
    /\ kind = "media" => \A o \in RunIds : ~Active(o)
    /\ run' = [run EXCEPT ![r] =
                 [IdleRun EXCEPT !.kind = kind, !.phase = "source", !.dry = dry,
                                 !.after = {o \in RunIds : run[o].phase = "done"},
                                 !.todo = files]]
    /\ overlap' = (overlap \/ \E o \in RunIds \ {r} : Active(o))
    /\ UNCHANGED <<fs, dirs, results, faults, arrived>>
    /\ UNCHANGED wvars
    /\ UNCHANGED pvars
    /\ UNCHANGED xvars

\* media_organizer.run, up to the scan of the source folders
MediaStart(r, dry) ==
    Begin(r, "media", dry, SourceFiles(MediaExts))

\* media_organizer.run: the source pass is over; scan_and_audit_folders lists
\* the media files under dest_base
MediaAuditStart(r) ==
    /\ run[r].kind = "media" /\ run[r].phase = "source"
    /\ run[r].pc = "next" /\ run[r].todo = <<>>
    /\ run' = [run EXCEPT ![r].phase = "audit",
                          ![r].todo = FilesUnder(MediaRoot, MediaExts)]
    /\ UNCHANGED <<fs, dirs, results, faults, overlap, arrived>>
    /\ UNCHANGED wvars
    /\ UNCHANGED pvars
    /\ UNCHANGED xvars

\* the last pass of a run is over
RunDone(r) ==
    /\ \/ run[r].kind = "media" /\ run[r].phase = "audit"
       \/ run[r].kind = "pdf" /\ run[r].phase = "source"
    /\ run[r].pc = "next" /\ run[r].todo = <<>>
    /\ run' = [run EXCEPT ![r].phase = "done"]
    /\ UNCHANGED <<fs, dirs, results, faults, overlap, arrived>>
    /\ UNCHANGED wvars
    /\ UNCHANGED pvars
    /\ UNCHANGED xvars

----------------------------------------------------------------------------
(* media_organizer.organize_file, copy_then_delete=True                    *)

\* "if dest_path.exists() and file_path.exists()" and the two hashes agree
DuplicateContent(src, dst) ==
    /\ Exists(dst) /\ Exists(src)
    /\ Md5(fs[src]) = Md5(fs[dst])

\* organize_file from its start to the decision before "Perform move/copy"
OrgPlan(r) ==
    /\ run[r].kind = "media" /\ Active(r) /\ run[r].pc = "next"
    /\ run[r].todo # <<>>
    /\ LET src == Head(run[r].todo)
            date == GetMediaDate(src)
            folder == MediaDestinationFolder(date)
            new_name == FormatFilename(date, src.name)
            dst == GetUniqueFilename(folder, new_name)
            rec == [run[r] EXCEPT !.todo = Tail(@), !.src = src, !.dst = dst,
                                  !.busy = Exists(Path(folder, new_name)),
                                  !.dup = FilesAreIdentical(src, Path(folder, new_name)),
                                  !.content = ContentAt(fs, src), !.over = "-",
                                  !.made = folder \notin dirs]
        IN /\ dirs' = dirs \cup {folder}
           /\ IF src = dst
              THEN Finish(r, rec, "skipped", "Already in correct location", fs)
              ELSE IF DuplicateContent(src, dst)
              THEN Finish(r, rec, "skipped", "Duplicate content", fs)
              ELSE IF run[r].dry
              THEN Finish(r, rec, "would_move", "-", fs)
              ELSE /\ run' = [run EXCEPT ![r] = [rec EXCEPT !.pc = "copy"]]
                   /\ UNCHANGED results
    /\ UNCHANGED <<fs, faults, overlap, arrived>>
    /\ UNCHANGED wvars
    /\ UNCHANGED pvars
    /\ UNCHANGED xvars

\* shutil.copy2(file_path, dest_path)
OrgCopy(r) ==
    /\ run[r].kind = "media" /\ run[r].pc = "copy"
    /\ LET src == run[r].src
           dst == run[r].dst
           rec == [run[r] EXCEPT !.over = ContentAt(fs, dst)]
           short == WriteFile(fs, dst, Partial)
       IN \/ \* the source has gone: copy2 raises before it creates anything
             /\ ~Exists(src)
             /\ Finish(r, run[r], "error", "copy raised", fs)
             /\ UNCHANGED <<fs, faults>>
          \/ \* the copy succeeds, replacing whatever is at dest_path by now
             /\ Exists(src)
             /\ fs' = WriteFile(fs, dst, fs[src])
             /\ run' = [run EXCEPT ![r] = [rec EXCEPT !.pc = "verify"]]
             /\ UNCHANGED <<results, faults>>
          \/ \* copy2 raises before it has written anything
             /\ Exists(src) /\ faults < MaxFaults
             /\ faults' = faults + 1
             /\ Finish(r, run[r], "error", "copy raised", fs)
             /\ UNCHANGED fs
          \/ \* copy2 raises after it has written part of the file
             /\ Exists(src) /\ faults < MaxFaults
             /\ faults' = faults + 1
             /\ fs' = short
             /\ Finish(r, rec, "error", "copy raised", short)
          \/ \* copy2 returns although the destination is short
             /\ Exists(src) /\ faults < MaxFaults
             /\ faults' = faults + 1
             /\ fs' = short
             /\ run' = [run EXCEPT ![r] = [rec EXCEPT !.pc = "verify"]]
             /\ UNCHANGED results
    /\ UNCHANGED <<dirs, overlap, arrived>>
    /\ UNCHANGED wvars
    /\ UNCHANGED pvars
    /\ UNCHANGED xvars

\* "dest_path.exists() and dest_path.stat().st_size == file_path.stat().st_size"
CopyVerified(src, dst) ==
    /\ Exists(dst)
    /\ SizeOf(fs[dst]) = SizeOf(fs[src])

\* the verification after the copy
OrgVerify(r) ==
    /\ run[r].kind = "media" /\ run[r].pc = "verify"
    /\ LET src == run[r].src
           dst == run[r].dst
       IN IF Exists(dst) /\ ~Exists(src)
          THEN \* file_path.stat() raises
               Finish(r, run[r], "error", "verify raised", fs)
          ELSE IF CopyVerified(src, dst)
          THEN /\ run' = [run EXCEPT ![r].pc = "unlink"]
               /\ UNCHANGED results
          ELSE Finish(r, run[r], "error", "Copy verification failed", fs)
    /\ UNCHANGED <<fs, dirs, faults, overlap, arrived>>
    /\ UNCHANGED wvars
    /\ UNCHANGED pvars
    /\ UNCHANGED xvars

\* file_path.unlink() and the "moved" result
OrgUnlink(r) ==
    /\ run[r].kind = "media" /\ run[r].pc = "unlink"
    /\ LET src == run[r].src
       IN \/ /\ Exists(src)
             /\ fs' = RemoveFile(fs, src)
             /\ Finish(r, run[r], "moved", "-", RemoveFile(fs, src))
             /\ UNCHANGED faults
          \/ \* the source has gone meanwhile: unlink raises
             /\ ~Exists(src)
             /\ Finish(r, run[r], "error", "unlink raised", fs)
             /\ UNCHANGED <<fs, faults>>
          \/ \* unlink raises (permissions, file in use)
             /\ Exists(src) /\ faults < MaxFaults
             /\ faults' = faults + 1
             /\ Finish(r, run[r], "error", "unlink raised", fs)
             /\ UNCHANGED fs
    /\ UNCHANGED <<dirs, overlap, arrived>>
    /\ UNCHANGED wvars
    /\ UNCHANGED pvars
    /\ UNCHANGED xvars

----------------------------------------------------------------------------
(* pdf_organizer: process_downloads and the two relocation routines        *)

\* detect_document_type finds a statement type in the text of the PDF
IsStatement(p) == Exists(p) /\ fs[p].content \in StatementContents

\* categorize_document reaches the accepted confidence
IsTopic(p) == Exists(p) /\ fs[p].content \in TopicContents

\* "<date> - <account>.pdf" in the account's folder: both statements of the
\* model carry the same statement date and account number
StatementPath(p) == Path(Folder(TaxRoot, "statements"), Name(<<fs[p].date>>, PdfExt))

\* dest_folder / pdf_file.name
TopicPath(p) == Path(Folder(TaxRoot, "topic"), p.name)

\* pdf_organizer.run up to the collection of the PDFs of the source folders
PdfStart(r, dry) ==
    Begin(r, "pdf", dry, SourceFiles({PdfExt}))

\* process_single_pdf up to the decision before shutil.move
PdfPlan(r) ==
    /\ run[r].kind = "pdf" /\ Active(r) /\ run[r].pc = "next"
    /\ run[r].todo # <<>>
    /\ LET src == Head(run[r].todo)
            planned == IF IsStatement(src) THEN StatementPath(src)
                       ELSE IF IsTopic(src) THEN TopicPath(src)
                       ELSE src
            dst == IF IsTopic(src) /\ Exists(planned) THEN GetUniquePath(planned)
                   ELSE planned
            rec == [run[r] EXCEPT !.todo = Tail(@), !.src = src, !.dst = dst,
                                  !.busy = Exists(planned),
                                  !.dup = FilesAreIdentical(src, planned),
                                  !.content = ContentAt(fs, src), !.over = "-",
                                  !.made = (IsStatement(src) \/ IsTopic(src))
                                           /\ planned.dir \notin dirs]
            goon == IF run[r].dry
                    THEN Finish(r, rec, "would_move", "-", fs)
                    ELSE /\ run' = [run EXCEPT ![r] = [rec EXCEPT !.pc = "move"]]
                         /\ UNCHANGED results
        IN \/ /\ IF IsStatement(src)
                 THEN /\ dirs' = dirs \cup {planned.dir}
                      /\ IF Exists(planned)
                         THEN Finish(r, rec, "none",
                                     IF rec.dup THEN "Skipping duplicate"
                                     ELSE "Skipping (file exists)", fs)
                         ELSE goon
                 ELSE IF IsTopic(src)
                 THEN /\ dirs' = dirs \cup {planned.dir}
                      /\ goon
                 ELSE \* no text, no category: the file is left for review
                      /\ Finish(r, rec, "none", "uncategorized", fs)
                      /\ UNCHANGED dirs
              /\ UNCHANGED faults
           \/ \* mkdir raises: nothing catches it in process_single_pdf,
              \* process_downloads or run, and the run ends with the files
              \* it has not visited yet
              /\ IsStatement(src) \/ IsTopic(src)
              /\ planned.dir \notin dirs
              /\ faults < MaxFaults
              /\ faults' = faults + 1
              /\ results' = [results EXCEPT ![r] =
                                @ \cup {Result([rec EXCEPT !.made = FALSE],
                                                "raised", "mkdir raised", fs)}]
              /\ run' = [run EXCEPT ![r] = [rec EXCEPT !.phase = "done"]]
              /\ UNCHANGED dirs
    /\ UNCHANGED <<fs, overlap, arrived>>
    /\ UNCHANGED wvars
    /\ UNCHANGED pvars
    /\ UNCHANGED xvars

\* shutil.move(str(pdf_file), str(new_path)) and the result
PdfMove(r) ==
    /\ run[r].kind = "pdf" /\ run[r].pc = "move"
    /\ LET src == run[r].src
           dst == run[r].dst
           rec == [run[r] EXCEPT !.over = ContentAt(fs, dst)]
           moved == WriteFile(RemoveFile(fs, src), dst, fs[src])
       IN \/ \* the rename replaces whatever is at the destination by now
             /\ Exists(src)
             /\ fs' = moved
             /\ Finish(r, rec, "moved", "-", moved)
             /\ UNCHANGED faults
          \/ \* the source has gone meanwhile: shutil.move raises
             /\ ~Exists(src)
             /\ Finish(r, run[r], "none", "move raised", fs)
             /\ UNCHANGED <<fs, faults>>
          \/ \* shutil.move raises
             /\ Exists(src) /\ faults < MaxFaults
             /\ faults' = faults + 1
             /\ Finish(r, run[r], "none", "move raised", fs)
             /\ UNCHANGED fs
    /\ UNCHANGED <<dirs, overlap, arrived>>
    /\ UNCHANGED wvars
    /\ UNCHANGED pvars
    /\ UNCHANGED xvars

----------------------------------------------------------------------------
(* The relocation specification                                            *)

Absent == [content |-> "-", date |-> "-"]
File(content) == [content |-> content, date |-> "d1"]

SourcePath(root, ext) == Path(Folder(root, "-"), Name(<<"a">>, ext))

\* the files on disk when the runs begin: a media scene or a PDF scene, with
\* up to one file per source folder and an archive that may already hold the
\* file the sources map to
MediaScene ==
    {[p \in {SourcePath(SourceRoots[1], "jpg"), SourcePath(SourceRoots[2], "jpg"),
             Path(Folder(MediaRoot, "d1"), Name(<<"d1", "a">>, "jpg"))} |->
        IF p.dir.root = SourceRoots[1] THEN d ELSE IF p.dir.root = SourceRoots[2] THEN k ELSE m] :
        d \in {Absent, File("c1")},
        k \in {Absent, File("c2")},
        m \in {Absent, File("c1")}}

PdfScene ==
    {[p \in {SourcePath(SourceRoots[1], "pdf"), SourcePath(SourceRoots[2], "pdf"),
             Path(Folder(TaxRoot, "statements"), Name(<<"d1">>, "pdf")),
             Path(Folder(TaxRoot, "topic"), Name(<<"a">>, "pdf"))} |->
        IF p.dir.root = SourceRoots[1] THEN d
        ELSE IF p.dir.root = SourceRoots[2] THEN k
        ELSE IF p.dir.sub = "statements" THEN m ELSE t] :
        d \in {Absent, File("s1"), File("g1")},
        k \in {Absent, File("s2"), File("g2")},
        m \in {Absent, File("s1")},
        t \in {Absent, File("g1")}}

OnDisk(scene) == [p \in {q \in DOMAIN scene : scene[q] # Absent} |-> scene[p]]

\* no run in progress, none made
NoRuns ==
    /\ run = [r \in RunIds |-> IdleRun]
    /\ results = [r \in RunIds |-> {}]
    /\ faults = 0
    /\ overlap = FALSE
    /\ arrived = 0

FSInit ==
    /\ \E scene \in MediaScene \cup PdfScene :
          /\ fs = OnDisk(scene)
          /\ dirs = {p.dir : p \in DOMAIN OnDisk(scene)}
    /\ NoRuns

\* a download completes, or the user drops a file on the desktop
Download(root, content) ==
    LET p == SourcePath(root, IF content \in MediaContents THEN "jpg" ELSE PdfExt)
    IN /\ arrived < MaxArrivals
       /\ ~Exists(p)
       /\ arrived' = arrived + 1
       /\ fs' = WriteFile(fs, p, File(content))
       /\ UNCHANGED <<dirs, run, results, faults, overlap>>
       /\ UNCHANGED wvars
       /\ UNCHANGED pvars
       /\ UNCHANGED xvars

FSNext ==
    \/ \E root \in {SourceRoots[1], SourceRoots[2]} :
          \E content \in MediaContents \cup StatementContents \cup TopicContents :
             Download(root, content)
    \/ \E r \in RunIds :
        \/ \E dry \in BOOLEAN : MediaStart(r, dry)
        \/ MediaAuditStart(r)
        \/ OrgPlan(r)
        \/ OrgCopy(r)
        \/ OrgVerify(r)
        \/ OrgUnlink(r)
        \/ \E dry \in BOOLEAN : PdfStart(r, dry)
        \/ PdfPlan(r)
        \/ PdfMove(r)
        \/ RunDone(r)

----------------------------------------------------------------------------
(* media_organizer: the date of a media file                               *)

NoDoc == [kind |-> "none"]
NoOut == [fn |-> "none"]

\* no pure routine has been applied
NoFn == doc = NoDoc /\ out = NoOut

\* "date_fields" of get_media_date, in order of preference
DateFields == <<"DateTimeOriginal", "CreateDate", "MediaCreateDate", "ModifyDate">>

\* The date sources of a media file:
\*   html  - FACEBOOK_HTML_DATE_LOOKUP is empty, lacks the name, or has it
\*   side1 - <name>.<ext>.json, side2 - <name>.json: absent, without a usable
\*           timestamp, or with one
\*   exif  - per date field: absent, unparseable, or a date
\*   mtime - stat() succeeds or raises
\* Every source that has a date has one of its own, so that the date returned
\* tells where it came from.
MediaDocs ==
    {[kind |-> "media", html |-> h, side1 |-> s1, side2 |-> s2, exif |-> e, mtime |-> m] :
        h \in {"empty", "miss", "hit"},
        s1 \in {"absent", "nodate", "date"},
        s2 \in {"absent", "nodate", "date"},
        e \in {x \in [1..Len(DateFields) -> {"absent", "bad", "ok"}] :
                  \A i \in 3..Len(DateFields) : x[i] # "bad"},
        m \in {"ok", "raises"}}

NoDate == [date |-> "-", method |-> "-"]

\* extract_facebook_html_date
ExtractFacebookHtmlDate(d) ==
    IF d.html = "empty" THEN NoDate
    ELSE IF d.html = "hit" THEN [date |-> "html", method |-> "Facebook HTML index"]
    ELSE NoDate

\* extract_facebook_sidecar_date: the first candidate that exists is the one
\* that is read
ExtractFacebookSidecarDate(d) ==
    LET candidate == IF d.side1 # "absent" THEN d.side1 ELSE d.side2
    IN IF candidate = "absent" THEN NoDate
       ELSE IF candidate = "date"
            THEN [date |-> IF d.side1 # "absent" THEN "side1" ELSE "side2",
                  method |-> "facebook sidecar"]
            ELSE NoDate

\* "for field in date_fields": the first field present that parse_exif_date
\* accepts, from field i on
RECURSIVE ExifDate(_, _)
ExifDate(d, i) ==
    IF i > Len(DateFields) THEN NoDate
    ELSE IF d.exif[i] = "ok"
         THEN [date |-> DateFields[i], method |-> "EXIF"]
         ELSE ExifDate(d, i + 1)

\* "mtime = file_path.stat().st_mtime" inside try / except
MtimeDate(d) ==
    IF d.mtime = "ok" THEN [date |-> "mtime", method |-> "file modification time"]
    ELSE NoDate

\* "return datetime.now(), 'current date (fallback)'"
NowDate == [date |-> "now", method |-> "current date (fallback)"]

\* a get_media_date that reads the embedded metadata before the sidecar
ExifBeforeSidecar(d) ==
    LET html == ExtractFacebookHtmlDate(d)
        exif == ExifDate(d, 1)
        side == ExtractFacebookSidecarDate(d)
        mtime == MtimeDate(d)
    IN IF html # NoDate THEN html @@ [consulted |-> <<"html">>]
       ELSE IF exif # NoDate THEN exif @@ [consulted |-> <<"html", "exif">>]
       ELSE IF side # NoDate THEN side @@ [consulted |-> <<"html", "exif", "sidecar">>]
       ELSE IF mtime # NoDate THEN mtime @@ [consulted |-> <<"html", "exif", "sidecar", "mtime">>]
       ELSE NowDate @@ [consulted |-> <<"html", "exif", "sidecar", "mtime", "now">>]

\* get_media_date: the date, its method, and the sources read on the way
MediaDateOf(d) ==
    LET html == ExtractFacebookHtmlDate(d)
        side == ExtractFacebookSidecarDate(d)
        exif == ExifDate(d, 1)
        mtime == MtimeDate(d)
    IN IF html # NoDate THEN html @@ [consulted |-> <<"html">>]
       ELSE IF side # NoDate THEN side @@ [consulted |-> <<"html", "sidecar">>]
       ELSE IF exif # NoDate THEN exif @@ [consulted |-> <<"html", "sidecar", "exif">>]
       ELSE IF mtime # NoDate
            THEN mtime @@ [consulted |-> <<"html", "sidecar", "exif", "mtime">>]
       ELSE NowDate @@ [consulted |-> <<"html", "sidecar", "exif", "mtime", "now">>]

\* a media file is picked
PickMedia ==
    /\ doc = NoDoc
    /\ doc' \in MediaDocs
    /\ UNCHANGED out
    /\ UNCHANGED wvars
    /\ UNCHANGED fvars
    /\ UNCHANGED xvars

\* get_media_date(file_path)
CallGetMediaDate ==
    /\ doc.kind = "media" /\ out = NoOut
    /\ out' = [fn |-> "get_media_date", val |-> MediaDateOf(doc)]
    /\ UNCHANGED doc
    /\ UNCHANGED wvars
    /\ UNCHANGED fvars
    /\ UNCHANGED xvars

----------------------------------------------------------------------------
(* pdf_organizer: classification of one PDF                                *)

\* three entries of DOCUMENT_TYPES, in the order of the table
TypeTable == <<"STR_RENTAL", "COLONIAL", "AMEX_PERS">>

\* the entries with a "Special validation" block
Validated == {"STR_RENTAL", "AMEX_PERS"}

\* two entries of DOCUMENT_CATEGORIES, in the order of the table
CategoryTable == <<"TAX_FORMS", "RECEIPTS">>

TypeIds == {TypeTable[i] : i \in 1..Len(TypeTable)}
CategoryIds == {CategoryTable[i] : i \in 1..Len(CategoryTable)}

NoType == "None"
NoCategory == "None"
NoYear == "-"

\* datetime.now().year, and another year
CurrentYear == "2026"
Years == {"2025", CurrentYear}

\* A PDF, by what the string tests of the organizer find in it:
\*   text     - what extract_text_from_pdf returns: the text, "NO_TEXT", or
\*              "ERROR: ..."
\*   nameHits - the types with a filename pattern in the name
\*   textHits - the types with a content keyword in the content
\*   passes   - the validated types whose validation the content passes
\*   catName, catText - the categories with a filename pattern in the name,
\*              a pattern in the content
\*   catExcl  - the categories with one of their exclude_patterns in the file
\*   excl     - where a phrase of GLOBAL_EXCLUSIONS occurs
\*   textYear - the year of the first date the content holds
\*   nameYear - the year in the name
\* and the circumstances of its relocation:
\*   taken    - what is at the computed destination
\*   mkdir, move - whether the call succeeds or raises
\*   dry      - dry_run
PlainPdf ==
    [kind |-> "pdf", text |-> "ok", nameHits |-> {}, textHits |-> {}, passes |-> {},
     catName |-> {}, catText |-> {}, catExcl |-> {}, excl |-> "none",
     textYear |-> NoYear, nameYear |-> NoYear,
     taken |-> "no", mkdir |-> "ok", move |-> "ok", dry |-> FALSE]

Texts == {"ok", "NO_TEXT", "ERROR"}

\* "text_upper = text.upper() if text and text != 'NO_TEXT' and not
\* text.startswith('ERROR:') else ''"
Readable(d) == d.text = "ok"

\* the files detect_document_type is applied to
TypingDocs ==
    {[PlainPdf EXCEPT !.text = t, !.nameHits = n, !.textHits = c, !.passes = v] :
        t \in {"ok", "NO_TEXT"}, n \in SUBSET TypeIds, c \in SUBSET TypeIds,
        v \in SUBSET Validated}

\* filename_match, content_match
FilenameMatch(d, k) == k \in d.nameHits
ContentMatch(d, k) == Readable(d) /\ k \in d.textHits

\* the "Special validation" of a type: it reads text_upper, which is empty
\* when the content could not be read
Validation(d, k) == k \in Validated => (Readable(d) /\ k \in d.passes)

\* "for doc_type, doc_config in DOCUMENT_TYPES.items()", from entry i on
RECURSIVE DetectFrom(_, _)
DetectFrom(d, i) ==
    IF i > Len(TypeTable) THEN NoType
    ELSE LET k == TypeTable[i]
         IN IF (FilenameMatch(d, k) \/ ContentMatch(d, k)) /\ ~Validation(d, k)
            THEN DetectFrom(d, i + 1)          \* continue
            ELSE IF FilenameMatch(d, k) \/ ContentMatch(d, k)
            THEN k
            ELSE DetectFrom(d, i + 1)

\* a detect_document_type that returns the last type that matches
RECURSIVE DetectLast(_, _)
DetectLast(d, i) ==
    IF i > Len(TypeTable) THEN NoType
    ELSE LET k == TypeTable[i]
             later == DetectLast(d, i + 1)
         IN IF later # NoType THEN later
            ELSE IF (FilenameMatch(d, k) \/ ContentMatch(d, k)) /\ Validation(d, k)
            THEN k
            ELSE NoType

DetectLastType(d) == DetectLast(d, 1)

\* detect_document_type
DetectDocumentType(d) == DetectFrom(d, 1)

\* a PDF is picked for detect_document_type
PickTyping ==
    /\ doc = NoDoc
    /\ doc' \in TypingDocs
    /\ UNCHANGED out
    /\ UNCHANGED wvars
    /\ UNCHANGED fvars
    /\ UNCHANGED xvars

\* detect_document_type(pdf_file.name, text)
CallDetectDocumentType ==
    /\ doc.kind = "pdf" /\ out = NoOut
    /\ out' = [fn |-> "detect_document_type", val |-> DetectDocumentType(doc)]
    /\ UNCHANGED doc
    /\ UNCHANGED wvars
    /\ UNCHANGED fvars
    /\ UNCHANGED xvars

----------------------------------------------------------------------------
(* pdf_organizer: categorize_document                                      *)

ConfidenceBoth == 95
ConfidenceFilenameOnly == 75
ConfidenceOther == 85
AcceptedConfidence == 75

\* the files categorize_document is applied to
TopicDocs ==
    {[PlainPdf EXCEPT !.text = t, !.catName = n, !.catText = c, !.catExcl = x, !.excl = g] :
        t \in {"ok", "NO_TEXT"}, n \in SUBSET CategoryIds, c \in SUBSET CategoryIds,
        x \in SUBSET CategoryIds, g \in {"none", "name", "text"}}

\* "exclusion in filename_upper or (text_upper and exclusion in text_upper)"
\* for some phrase of GLOBAL_EXCLUSIONS
GloballyExcluded(d) == d.excl = "name" \/ (Readable(d) /\ d.excl = "text")

\* the confidence of a match of category c
Confidence(d, c) ==
    LET filename_match == c \in d.catName
        content_match == Readable(d) /\ c \in d.catText
        no_text == ~Readable(d)
    IN IF filename_match /\ content_match THEN ConfidenceBoth
       ELSE IF filename_match /\ no_text THEN ConfidenceFilenameOnly
       ELSE ConfidenceOther

\* "for category_id, cat_config in DOCUMENT_CATEGORIES.items()", from entry
\* i on
RECURSIVE CategorizeFrom(_, _)
CategorizeFrom(d, i) ==
    IF i > Len(CategoryTable) THEN [category |-> NoCategory, confidence |-> 0]
    ELSE LET c == CategoryTable[i]
         IN IF c \in d.catExcl THEN CategorizeFrom(d, i + 1)
            ELSE IF c \in d.catName \/ (Readable(d) /\ c \in d.catText)
            THEN [category |-> c, confidence |-> Confidence(d, c)]
            ELSE CategorizeFrom(d, i + 1)

\* a categorize_document without the layer of global exclusions
NoGlobalExclusions(d) == CategorizeFrom(d, 1)

\* categorize_document
CategorizeDocument(d) ==
    IF GloballyExcluded(d) THEN [category |-> NoCategory, confidence |-> 0]
    ELSE CategorizeFrom(d, 1)

\* a PDF is picked for categorize_document
PickTopic ==
    /\ doc = NoDoc
    /\ doc' \in TopicDocs
    /\ UNCHANGED out
    /\ UNCHANGED wvars
    /\ UNCHANGED fvars
    /\ UNCHANGED xvars

\* categorize_document(pdf_file.name, text)
CallCategorizeDocument ==
    /\ doc.kind = "pdf" /\ out = NoOut
    /\ out' = [fn |-> "categorize_document", val |-> CategorizeDocument(doc)]
    /\ UNCHANGED doc
    /\ UNCHANGED wvars
    /\ UNCHANGED fvars
    /\ UNCHANGED xvars

----------------------------------------------------------------------------
(* pdf_organizer: process_single_pdf, as process_downloads calls it        *)

NoResult == [type |-> "None"]

\* What processing one file comes to: the dictionary returned, whether the
\* file has left its place (moved), whether the destination folder was
\* created (folder), whether an exception leaves the routine (raised), where
\* the year of the destination came from, and the routines that ran.
Outcome(result, moved, folder, raised, yearFrom, calls) ==
    [result |-> result, moved |-> moved, folder |-> folder, raised |-> raised,
     yearFrom |-> yearFrom, calls |-> calls]

\* extract_statement_date, for the types of the table (the type's own date
\* pattern and the generic one both read the content): no date from a
\* content that is an error message, else the first date of the content,
\* else the year in the name
ExtractStatementDate(d) ==
    IF d.text = "ERROR" THEN [year |-> NoYear, from |-> "-"]
    ELSE IF Readable(d) /\ d.textYear # NoYear THEN [year |-> d.textYear, from |-> "text"]
    ELSE IF d.nameYear # NoYear THEN [year |-> d.nameYear, from |-> "name"]
    ELSE [year |-> NoYear, from |-> "-"]

\* process_bank_statement
ProcessBankStatement(d, k, calls) ==
    LET date == ExtractStatementDate(d)
        here == calls \o <<"process_bank_statement">>
        result == [type |-> "bank_statement", to_year |-> date.year, account |-> k,
                   new_name |-> "date - account", dry_run |-> d.dry]
    IN IF date.year = NoYear THEN Outcome(NoResult, FALSE, FALSE, FALSE, "-", here)
       ELSE IF d.mkdir = "raises"    \* get_destination_folder
       THEN Outcome(NoResult, FALSE, FALSE, TRUE, date.from, here)
       ELSE IF d.taken # "no" THEN Outcome(NoResult, FALSE, TRUE, FALSE, date.from, here)
       ELSE IF d.dry THEN Outcome(result, FALSE, TRUE, FALSE, date.from, here)
       ELSE IF d.move = "raises" THEN Outcome(NoResult, FALSE, TRUE, FALSE, date.from, here)
       ELSE Outcome(result, TRUE, TRUE, FALSE, date.from, here)

\* a gate at the documented 90
AcceptsFrom90(category, confidence) == category # NoCategory /\ confidence >= 90

\* no gate
AcceptsAll(category, confidence) == TRUE

\* "if not category_id or confidence < 75: return None", negated
Accepts(category, confidence) ==
    category # NoCategory /\ confidence >= AcceptedConfidence

\* the year of the destination of a general document
DocYear(d) ==
    IF Readable(d) /\ d.textYear # NoYear THEN [year |-> d.textYear, from |-> "text"]
    ELSE IF d.nameYear # NoYear THEN [year |-> d.nameYear, from |-> "name"]
    ELSE [year |-> CurrentYear, from |-> "now"]

\* process_general_document from its gate on, for the answer cat of
\* categorize_document
GeneralDocument(d, cat, calls) ==
    LET year == DocYear(d)
        here == calls \o <<"process_general_document", "categorize_document">>
        result == [type |-> "categorized", to_year |-> year.year,
                   category |-> cat.category, confidence |-> cat.confidence,
                   new_name |-> IF d.taken = "no" THEN "name" ELSE "name_1",
                   dry_run |-> d.dry]
    IN IF ~Accepts(cat.category, cat.confidence)
       THEN Outcome(NoResult, FALSE, FALSE, FALSE, "-", here)
       ELSE IF d.mkdir = "raises"
       THEN Outcome(NoResult, FALSE, FALSE, TRUE, year.from, here)
       ELSE IF d.dry THEN Outcome(result, FALSE, TRUE, FALSE, year.from, here)
       ELSE IF d.move = "raises" THEN Outcome(NoResult, FALSE, TRUE, FALSE, year.from, here)
       ELSE Outcome(result, TRUE, TRUE, FALSE, year.from, here)

\* process_general_document
ProcessGeneralDocument(d, calls) == GeneralDocument(d, CategorizeDocument(d), calls)

\* process_single_pdf
ProcessSinglePdf(d) ==
    LET k == DetectDocumentType(d)
    IN IF k # NoType THEN ProcessBankStatement(d, k, <<"detect_document_type">>)
       ELSE ProcessGeneralDocument(d, <<"detect_document_type">>)

\* the list of process_downloads the file ends in
ListedIn(o) ==
    IF o.raised THEN "-"
    ELSE IF o.result = NoResult THEN "uncategorized_files"
    ELSE IF o.result.type = "bank_statement" THEN "moved_files"
    ELSE "categorized_files"

\* the files process_single_pdf is applied to
ProcessDocs ==
    {[PlainPdf EXCEPT !.text = t, !.nameHits = n, !.passes = v,
                      !.catName = cn, !.catText = ct, !.excl = g,
                      !.textYear = ty, !.nameYear = ny,
                      !.taken = tk, !.mkdir = mk, !.move = mv, !.dry = dr] :
        t \in Texts,
        n \in {{}, {"COLONIAL"}, {"STR_RENTAL", "COLONIAL"}}, v \in {{}, {"STR_RENTAL"}},
        cn \in {{}, {"RECEIPTS"}}, ct \in {{}, {"RECEIPTS"}}, g \in {"none", "name"},
        ty \in {NoYear} \cup Years, ny \in {NoYear, CurrentYear},
        tk \in {"no", "same", "other"}, mk \in {"ok", "raises"}, mv \in {"ok", "raises"},
        dr \in BOOLEAN}

\* the answers of a categorize_document, those of the code and invented
\* lower ones
Scores == {0, 50, 74, 75, 85, 89, 90, 95}

Matches ==
    {[kind |-> "match", cat |-> [category |-> c, confidence |-> n],
      file |-> [PlainPdf EXCEPT !.dry = dr, !.move = mv]] :
        c \in CategoryIds \cup {NoCategory}, n \in Scores, dr \in BOOLEAN,
        mv \in {"ok", "raises"}}

\* a file and the answer of categorize_document for it
PickMatch ==
    /\ doc = NoDoc
    /\ doc' \in Matches
    /\ UNCHANGED out
    /\ UNCHANGED wvars
    /\ UNCHANGED fvars
    /\ UNCHANGED xvars

\* process_general_document, given the answer of categorize_document
CallGeneralDocument ==
    /\ doc.kind = "match" /\ out = NoOut
    /\ LET o == GeneralDocument(doc.file, doc.cat, <<>>)
       IN out' = [fn |-> "process_general_document", val |-> o, listed |-> ListedIn(o)]
    /\ UNCHANGED doc
    /\ UNCHANGED wvars
    /\ UNCHANGED fvars
    /\ UNCHANGED xvars

\* a PDF of a source folder is picked
PickPdf ==
    /\ doc = NoDoc
    /\ doc' \in ProcessDocs
    /\ UNCHANGED out
    /\ UNCHANGED wvars
    /\ UNCHANGED fvars
    /\ UNCHANGED xvars

\* one turn of the loop of process_downloads
CallProcessSinglePdf ==
    /\ doc.kind = "pdf" /\ out = NoOut
    /\ LET o == ProcessSinglePdf(doc)
       IN out' = [fn |-> "process_single_pdf", val |-> o, listed |-> ListedIn(o)]
    /\ UNCHANGED doc
    /\ UNCHANGED wvars
    /\ UNCHANGED fvars
    /\ UNCHANGED xvars

----------------------------------------------------------------------------
(* pdf_organizer: audit_tax_folders, one file of the tax folders           *)

\* The files of the tax folders: as the PDFs above, and where the file is:
\* at its correct path, in its correct folder under another name, or
\* elsewhere.  A file at its correct path has nothing else there.
AuditDocs ==
    {a \in {[kind |-> "filed", place |-> pl,
             file |-> [PlainPdf EXCEPT !.text = t, !.nameHits = n, !.textYear = ty,
                                       !.taken = tk, !.mkdir = mk, !.move = mv,
                                       !.dry = dr]] :
                pl \in {"path", "folder", "elsewhere"},
                t \in Texts, n \in {{}, {"COLONIAL"}}, ty \in {NoYear, CurrentYear},
                tk \in {"no", "same", "other"}, mk \in {"ok", "raises"},
                mv \in {"ok", "raises"}, dr \in BOOLEAN} :
        a.place = "path" => a.file.taken = "no"}

\* an audit that lets a file of the same content stand and replaces another
AuditOverDifferent(a) ==
    LET d == a.file
        k == DetectDocumentType(d)
        date == ExtractStatementDate(d)
        result == [type |-> "bank_statement", to_year |-> date.year, account |-> k,
                   new_name |-> "date - account", dry_run |-> d.dry]
    IN IF ~Readable(d) \/ k = NoType \/ date.year = NoYear
          \/ a.place \in {"path", "folder"} \/ d.taken = "same" \/ d.move = "raises"
       THEN Outcome(NoResult, FALSE, FALSE, FALSE, "-", <<>>)
       ELSE Outcome(result, ~d.dry, TRUE, FALSE, date.from, <<>>)

\* the body of "for pdf_file in config.TAX_BASE_FOLDER.rglob('*.pdf')"
AuditOne(a) ==
    LET d == a.file
        k == DetectDocumentType(d)
        date == ExtractStatementDate(d)
        calls == <<"detect_document_type">>
        result == [type |-> "bank_statement", to_year |-> date.year, account |-> k,
                   new_name |-> "date - account", dry_run |-> d.dry]
    IN IF ~Readable(d) THEN Outcome(NoResult, FALSE, FALSE, FALSE, "-", <<>>)
       ELSE IF k = NoType THEN Outcome(NoResult, FALSE, FALSE, FALSE, "-", calls)
       ELSE IF date.year = NoYear THEN Outcome(NoResult, FALSE, FALSE, FALSE, "-", calls)
       ELSE IF d.mkdir = "raises"     \* get_destination_folder
       THEN Outcome(NoResult, FALSE, FALSE, TRUE, date.from, calls)
       ELSE IF a.place = "path" THEN Outcome(NoResult, FALSE, TRUE, FALSE, date.from, calls)
       ELSE IF a.place = "folder" THEN Outcome(NoResult, FALSE, TRUE, FALSE, date.from, calls)
       ELSE IF d.taken # "no"         \* "if correct_path.exists(): ... continue"
       THEN Outcome(NoResult, FALSE, TRUE, FALSE, date.from, calls)
       ELSE IF d.dry THEN Outcome(result, FALSE, TRUE, FALSE, date.from, calls)
       ELSE IF d.move = "raises" THEN Outcome(NoResult, FALSE, TRUE, FALSE, date.from, calls)
       ELSE Outcome(result, TRUE, TRUE, FALSE, date.from, calls)

\* a PDF of the tax folders is picked
PickFiled ==
    /\ doc = NoDoc
    /\ doc' \in AuditDocs
    /\ UNCHANGED out
    /\ UNCHANGED wvars
    /\ UNCHANGED fvars
    /\ UNCHANGED xvars

\* one turn of the loop of audit_tax_folders: what it did, the list the file
\* was added to, and what the file's place and the computed destination
\* hold afterwards
CallAuditOne ==
    /\ doc.kind = "filed" /\ out = NoOut
    /\ LET o == AuditOne(doc)
       IN out' = [fn |-> "audit_tax_folders", val |-> o,
                  listed |-> IF o.result = NoResult THEN "-" ELSE "moved_files",
                  srcAfter |-> IF o.moved THEN "-" ELSE "file",
                  dstAfter |-> IF o.moved THEN "file" ELSE doc.file.taken]
    /\ UNCHANGED doc
    /\ UNCHANGED wvars
    /\ UNCHANGED fvars
    /\ UNCHANGED xvars

----------------------------------------------------------------------------
(* utils.ProcessLock: processes locking the same lock file path            *)

MaxProcs == 2        \* processes using the lock

LockProcs == 1..MaxProcs

\* the files the path can name over time: the one at the path and the ones
\* the processes still hold open after an unlink
Inodes == 1..(MaxProcs + 1)

\* ProcessLock.__init__: "self._lock_handle = None"
NoLock == [pc |-> "idle", handle |-> 0]

XInit ==
    /\ wstate = "running"
    /\ lock_file = 0
    /\ flocks = [i \in Inodes |-> 0]
    /\ plock = [p \in LockProcs |-> NoLock]

\* an inode nobody refers to, for a file that open() creates
FreshInode ==
    CHOOSE i \in Inodes : i # lock_file /\ \A p \in LockProcs : plock[p].handle # i

\* acquire: "self._lock_handle = open(self.lock_file, "w")", at the first
\* pass of the loop or after the 0.5 s sleep that follows a failed flock;
\* open creates the file when the path names none
LockOpen(p) ==
    /\ plock[p].pc \in {"idle", "retry", "failed"}
    /\ LET ino == IF lock_file # 0 THEN lock_file ELSE FreshInode
       IN /\ lock_file' = ino
          /\ plock' = [plock EXCEPT ![p] = [pc |-> "flock", handle |-> ino]]
    /\ UNCHANGED <<flocks, wstate>>
    /\ UNCHANGED wvars
    /\ UNCHANGED fvars
    /\ UNCHANGED pvars

\* acquire: "fcntl.flock(fd, LOCK_EX | LOCK_NB); return True", or the
\* IOError of a lock held through another open file description
LockFlock(p) ==
    /\ plock[p].pc = "flock"
    /\ IF flocks[plock[p].handle] = 0
       THEN /\ flocks' = [flocks EXCEPT ![plock[p].handle] = p]
            /\ plock' = [plock EXCEPT ![p].pc = "held"]
       ELSE /\ plock' = [plock EXCEPT ![p].pc = "retry"]
            /\ UNCHANGED flocks
    /\ UNCHANGED <<lock_file, wstate>>
    /\ UNCHANGED wvars
    /\ UNCHANGED fvars
    /\ UNCHANGED pvars

\* acquire: the timeout has passed, "return False"
LockTimeout(p) ==
    /\ plock[p].pc = "retry"
    /\ plock' = [plock EXCEPT ![p].pc = "failed"]
    /\ UNCHANGED <<lock_file, flocks, wstate>>
    /\ UNCHANGED wvars
    /\ UNCHANGED fvars
    /\ UNCHANGED pvars

\* release: "fcntl.flock(fd, LOCK_UN)"
ReleaseUnlock(p) ==
    /\ plock[p].pc = "held"
    /\ flocks' = [flocks EXCEPT ![plock[p].handle] = 0]
    /\ plock' = [plock EXCEPT ![p].pc = "close"]
    /\ UNCHANGED <<lock_file, wstate>>
    /\ UNCHANGED wvars
    /\ UNCHANGED fvars
    /\ UNCHANGED pvars

\* release: "self._lock_handle.close()"
ReleaseClose(p) ==
    /\ plock[p].pc = "close"
    /\ plock' = [plock EXCEPT ![p] = [pc |-> "unlink", handle |-> 0]]
    /\ UNCHANGED <<lock_file, flocks, wstate>>
    /\ UNCHANGED wvars
    /\ UNCHANGED fvars
    /\ UNCHANGED pvars

\* release: "self.lock_file.unlink(missing_ok=True)" removes whatever file
\* the path names now; "self._lock_handle = None"
ReleaseUnlink(p) ==
    /\ plock[p].pc = "unlink"
    /\ lock_file' = 0
    /\ plock' = [plock EXCEPT ![p] = NoLock]
    /\ UNCHANGED <<flocks, wstate>>
    /\ UNCHANGED wvars
    /\ UNCHANGED fvars
    /\ UNCHANGED pvars

\* the processes for which acquire has returned True and release has not
\* been called since
Holders == {p \in LockProcs : plock[p].pc = "held"}

----------------------------------------------------------------------------
(* utils.safe_move, for one call                                           *)

\* One call: the content of the source ("absent" when there is none), what
\* the destination path holds before the call, whether the two paths name
\* the same file, the verify argument, and the step that fails: mkdir, the
\* copy before or after it has opened the destination, a copy that ends
\* with different content, or the unlink of the source.
MoveFaults == {"none", "mkdir", "copy_before", "copy_partial", "short", "unlink"}

Moves ==
    {m \in [kind : {"move"}, source : {"absent", "s"}, destination : {"absent", "s", "d"},
            same : BOOLEAN, verify : BOOLEAN, fault : MoveFaults] :
        m.same => m.destination = m.source}

\* files_are_identical, on the contents of two paths
SameContent(a, b) == a # "absent" /\ b # "absent" /\ a = b

\* What a call leaves: its return value, whether it raised, and the content
\* of the two paths afterwards
Moved(returned, raised, srcAfter, dstAfter) ==
    [returned |-> returned, raised |-> raised, srcAfter |-> srcAfter, dstAfter |-> dstAfter]

\* the except branch: the destination is unlinked when both paths exist
CleanUp(src, dst, same) ==
    IF dst # "absent" /\ src # "absent"
    THEN Moved(FALSE, FALSE, IF same THEN "absent" ELSE src, "absent")
    ELSE Moved(FALSE, FALSE, src, dst)

\* what shutil.copy2 leaves at the destination when it returns
Copied(d) == IF d.fault = "short" THEN "partial" ELSE d.source

\* safe_move: shutil.copy2 writes over whatever the destination holds
SafeMove(d) ==
    IF d.source = "absent" THEN Moved(FALSE, FALSE, d.source, d.destination)
    ELSE IF d.fault = "mkdir" THEN Moved(FALSE, TRUE, d.source, d.destination)
    ELSE IF d.same \/ d.fault = "copy_before" THEN CleanUp(d.source, d.destination, d.same)
    ELSE IF d.fault = "copy_partial" THEN CleanUp(d.source, "partial", FALSE)
    ELSE IF d.verify /\ ~SameContent(d.source, Copied(d))
    THEN Moved(FALSE, FALSE, d.source, "absent")
    ELSE IF d.fault = "unlink" THEN CleanUp(d.source, Copied(d), FALSE)
    ELSE Moved(TRUE, FALSE, "absent", Copied(d))

\* a caller chooses the two paths
PickMove ==
    /\ doc = NoDoc
    /\ doc' \in Moves
    /\ UNCHANGED out
    /\ UNCHANGED wvars
    /\ UNCHANGED fvars
    /\ UNCHANGED xvars

CallSafeMove ==
    /\ doc.kind = "move" /\ out = NoOut
    /\ out' = [fn |-> "safe_move", val |-> SafeMove(doc)]
    /\ UNCHANGED doc
    /\ UNCHANGED wvars
    /\ UNCHANGED fvars
    /\ UNCHANGED xvars

----------------------------------------------------------------------------
(* watcher: _process_file_event, for one event                             *)

\* The file of an event: whether it is a regular file, its extension (none,
\* ".crdownload", ".pdf", ".jpg"), whether it begins with the bytes %PDF-,
\* whether its download is still in progress, what is at its name with the
\* suffix .pdf, and whether rename raises; and the two switches of the
\* handler.
Events ==
    {[kind |-> "event", is_file |-> i, ext |-> e, magic |-> m, growing |-> g,
      target |-> t, rename |-> r, pdf_enabled |-> pe, media_enabled |-> me] :
        i \in BOOLEAN, e \in {"", "crdownload", PdfExt} \cup MediaExts, m \in BOOLEAN,
        g \in BOOLEAN, t \in {"absent", "other"}, r \in {"ok", "raises"},
        pe \in BOOLEAN, me \in BOOLEAN}

\* _is_pdf_by_content
IsPdfByContent(d) == d.magic

\* What the handler did: the organizer it scheduled and for which path, and
\* what the rename left: whether the file was renamed, and what the name
\* with the suffix .pdf holds
Handled(scheduled, at, renamed, targetAfter) ==
    [scheduled |-> scheduled, at |-> at, renamed |-> renamed, targetAfter |-> targetAfter]

\* _process_file_event; Path.rename replaces the file at the new name
ProcessFileEvent(d) ==
    IF ~d.is_file THEN Handled("none", "-", FALSE, d.target)
    ELSE IF d.pdf_enabled /\ d.ext = PdfExt
    THEN Handled("pdf", "file_path", FALSE, d.target)
    ELSE IF d.pdf_enabled /\ (d.ext = "" \/ d.ext \notin MediaExts) /\ IsPdfByContent(d)
    THEN IF d.rename = "raises"
         THEN Handled("none", "-", FALSE, d.target)
         ELSE Handled("pdf", "new_path", TRUE, "file")
    ELSE IF d.ext \in MediaExts /\ d.media_enabled
    THEN Handled("media", "file_path", FALSE, d.target)
    ELSE Handled("none", "-", FALSE, d.target)

\* on_created / on_moved for a file
PickEvent ==
    /\ doc = NoDoc
    /\ doc' \in Events
    /\ UNCHANGED out
    /\ UNCHANGED wvars
    /\ UNCHANGED fvars
    /\ UNCHANGED xvars

\* the handler runs, before any timer thread for the file exists
CallProcessFileEvent ==
    /\ doc.kind = "event" /\ out = NoOut
    /\ out' = [fn |-> "_process_file_event", val |-> ProcessFileEvent(doc)]
    /\ UNCHANGED doc
    /\ UNCHANGED wvars
    /\ UNCHANGED fvars
    /\ UNCHANGED xvars

----------------------------------------------------------------------------
(* media_organizer.run: the summary notification                           *)

\* the functions the module notifications defines
NotificationNames ==
    {"notifications_available", "notify", "notify_pdf_organization",
     "notify_media_organization", "notify_watcher_event"}

\* notifications.<name>(...): a name the module does not define raises
\* AttributeError; the functions it defines return False when the notify
\* module could not be imported or when sending raises
CallNotifications(name, available, sending) ==
    IF name \notin NotificationNames THEN "AttributeError"
    ELSE IF ~available THEN "False"
    ELSE IF sending = "raises" THEN "False"
    ELSE "True"

\* The end of a media run: the files it moved by type, dry_run, whether the
\* notify module could be imported, and whether sending works
Summaries ==
    {[kind |-> "summary", photos |-> ph, videos |-> vi, audio |-> 0, dry |-> dr,
      available |-> av, sending |-> sd] :
        ph \in 0..2, vi \in 0..1, dr \in BOOLEAN, av \in BOOLEAN,
        sd \in {"ok", "raises"}}

\* media_organizer.run from "Send notification if files were moved" on
MediaRunEnd(d) ==
    LET total_moved == d.photos + d.videos + d.audio
        counts == <<d.photos, d.videos, d.audio>>
    IN IF total_moved > 0 /\ ~d.dry
       THEN LET sent == CallNotifications("send", d.available, d.sending)
            IN IF sent = "AttributeError"
               THEN [raised |-> TRUE, returned |-> <<>>]
               ELSE [raised |-> FALSE, returned |-> counts]
       ELSE [raised |-> FALSE, returned |-> counts]

\* pdf_organizer.run from "Send notification" on
PdfRunEnd(d) ==
    LET organized == d.photos + d.videos
        counts == <<d.photos, d.videos, d.audio>>
    IN IF ~d.dry /\ organized > 0
       THEN LET sent == CallNotifications("notify_pdf_organization",
                                          d.available, d.sending)
            IN IF sent = "AttributeError"
               THEN [raised |-> TRUE, returned |-> <<>>]
               ELSE [raised |-> FALSE, returned |-> counts]
       ELSE [raised |-> FALSE, returned |-> counts]

\* a run reaches its summary
PickSummary ==
    /\ doc = NoDoc
    /\ doc' \in Summaries
    /\ UNCHANGED out
    /\ UNCHANGED wvars
    /\ UNCHANGED fvars
    /\ UNCHANGED xvars

\* the media run ends
CallMediaRunEnd ==
    /\ doc.kind = "summary" /\ out = NoOut
    /\ out' = [fn |-> "media_organizer.run", val |-> MediaRunEnd(doc)]
    /\ UNCHANGED doc
    /\ UNCHANGED wvars
    /\ UNCHANGED fvars
    /\ UNCHANGED xvars

\* the PDF run ends; its counts are (moved, categorized, uncategorized)
CallPdfRunEnd ==
    /\ doc.kind = "summary" /\ out = NoOut
    /\ out' = [fn |-> "pdf_organizer.run", val |-> PdfRunEnd(doc)]
    /\ UNCHANGED doc
    /\ UNCHANGED wvars
    /\ UNCHANGED fvars
    /\ UNCHANGED xvars

----------------------------------------------------------------------------
(* The watcher specification                                               *)

WNext ==
    \/ Tick
    \/ \E f \in WFiles : Arrive(f) \/ Grow(f) \/ Vanish(f) \/ FsEvent(f)
    \/ \E t \in Tids : DebounceWake(t) \/ CheckExists(t) \/ Stat1(t) \/ Stat2(t)
                       \/ ReadTime(t) \/ Gate(t) \/ RunReturn(t)
    \/ SweepScan \/ SweepReadTime \/ SweepGate \/ SweepReturn
    \/ \E k \in Kinds : BatchStart(k)
    \/ BatchReturn

\* the watcher starts with nothing in the watched folders
Init ==
    /\ WInit
    /\ fs = OnDisk([p \in {} |-> Absent])
    /\ dirs = {}
    /\ NoRuns
    /\ NoFn
    /\ XInit

\* the watcher, with the pipelines reduced to their duration and their effect
\* on the watched folders
Spec == Init /\ [][WNext]_vars

\* the pipelines, step by step, on a disk that holds files
InitFS == WInit /\ FSInit /\ NoFn /\ XInit

\* the watcher from its start to the exit of its process
StopNext ==
    \/ Tick
    \/ \E f \in WFiles : Arrive(f) \/ FsEvent(f)
    \/ \E t \in Tids : DebounceWake(t) \/ CheckExists(t) \/ Stat1(t) \/ Stat2(t)
                       \/ ReadTime(t) \/ Gate(t) \/ RunReturn(t)
    \/ SweepScan \/ SweepReadTime \/ SweepGate \/ SweepReturn
    \/ ObserverStop
    \/ ProcessExit

SpecStop == Init /\ [][StopNext]_vars

\* the watcher left running, in a folder that can also receive "c.PDF"
LiveInit ==
    /\ now = Epoch
    /\ wf = [f \in LiveFiles |-> [st |-> "none", size |-> 0, mtime |-> 0]]
    /\ pending_files = {}
    /\ thr = [t \in Tids |-> FreeThread]
    /\ sweep = [pc |-> "sleep",
                ctime |-> 0, kind |-> "pdf", pdfs |-> FALSE, media |-> FALSE, n |-> 0]
    /\ last_run = [k \in Kinds |-> 0]
    /\ trigs = <<>>
    /\ batch = "idle"
    /\ evCount = 0
    /\ fs = OnDisk([p \in {} |-> Absent])
    /\ dirs = {}
    /\ NoRuns
    /\ NoFn
    /\ XInit

LiveNext ==
    \/ Tick
    \/ Elapse
    \/ \E f \in LiveFiles : Arrive(f) \/ FsEvent(f)
    \/ \E t \in Tids : DebounceWake(t) \/ CheckExists(t) \/ Stat1(t) \/ Stat2(t)
                       \/ ReadTime(t) \/ Gate(t) \/ RunReturn(t)
    \/ SweepScan \/ SweepAgain \/ SweepReadTime \/ SweepGate \/ SweepReturn

\* Fair scheduling: the clock moves, every sleep returns, every thread that
\* can take a step takes one, every pipeline run returns.  Arrivals and
\* events are the environment's and are not forced.
LiveFairness ==
    /\ WF_vars(Tick) /\ WF_vars(Elapse)
    /\ \A t \in Tids :
          /\ WF_vars(DebounceWake(t)) /\ WF_vars(CheckExists(t))
          /\ WF_vars(Stat1(t)) /\ WF_vars(Stat2(t))
          /\ WF_vars(ReadTime(t)) /\ WF_vars(Gate(t)) /\ WF_vars(RunReturn(t))
    /\ WF_vars(SweepScan) /\ WF_vars(SweepAgain)
    /\ WF_vars(SweepReadTime) /\ WF_vars(SweepGate) /\ WF_vars(SweepReturn)

SpecLive == LiveInit /\ [][LiveNext]_vars /\ LiveFairness

SpecFS == InitFS /\ [][FSNext]_vars

\* the pure routines, applied to a file drawn from the bounded sets
FnNext ==
    \/ PickMedia
    \/ CallGetMediaDate
    \/ PickTyping
    \/ CallDetectDocumentType
    \/ PickTopic
    \/ CallCategorizeDocument
    \/ PickPdf
    \/ CallProcessSinglePdf
    \/ PickMatch
    \/ CallGeneralDocument
    \/ PickSummary
    \/ CallMediaRunEnd
    \/ CallPdfRunEnd
    \/ PickFiled
    \/ CallAuditOne
    \/ PickEvent
    \/ CallProcessFileEvent
    \/ PickMove
    \/ CallSafeMove

SpecFn == Init /\ [][FnNext]_vars

\* processes acquiring and releasing the lock of one lock file path
LockNext ==
    \E p \in LockProcs :
        \/ LockOpen(p)
        \/ LockFlock(p)
        \/ LockTimeout(p)
        \/ ReleaseUnlock(p)
        \/ ReleaseClose(p)
        \/ ReleaseUnlink(p)

SpecLock == Init /\ [][LockNext]_vars

----------------------------------------------------------------------------
(* Properties of the relocation engine                                     *)

AllResults == UNION {results[r] : r \in RunIds}

\* C1: every media relocation attempt ends either "moved", with the
\* destination holding the source's content and the source gone, or "error",
\* with the source untouched and nothing left at the destination.
C1_MoveIsAllOrNothing ==
    \A x \in AllResults :
        x.kind = "media" /\ x.status \in {"moved", "error"} =>
            \/ x.status = "moved" /\ x.dstAfter = x.content /\ x.srcAfter = "-"
            \/ x.status = "error" /\ x.srcAfter = x.content /\ x.dstAfter = "-"

\* C2: a relocation never writes over a file that is at its destination when
\* it commits, even when two runs interleave: what was there stays there.
C2_NothingOverwritten ==
    \A x \in AllResults : x.over # "-" => x.dstAfter = x.over

\* C5: when a file identical to the source is at the computed destination,
\* the attempt is reported as a duplicate skip, the source stays, and no
\* further copy is made.
C5_DuplicateIsSkipped ==
    \A x \in AllResults :
        x.dup /\ ~x.dry =>
            /\ x.status \in {"skipped", "none"}
            /\ x.why \in {"Duplicate content", "Skipping duplicate"}
            /\ x.srcAfter = x.content

\* a run that began after an earlier media run had organized the archive,
\* with nothing arriving, failing or running alongside
SecondPass(r) ==
    /\ run[r].kind = "media" /\ run[r].after # {}
    /\ \A o \in run[r].after : run[o].kind = "media" /\ ~run[o].dry
    /\ faults = 0 /\ arrived = 0 /\ ~overlap
    /\ \A x \in results[r] : x.pass = "audit"

\* C6: the audit pass of a second run over an archive an earlier run
\* organized relocates nothing: every file gets the "already in correct
\* location" skip.
C6_SecondAuditIsIdle ==
    \A r \in RunIds : SecondPass(r) =>
        \A x \in results[r] :
            x.status = "skipped" /\ x.why = "Already in correct location"

\* an attempt of a run's source pass on a file, with no fault and no other
\* run alongside
PlainAttempt(x) ==
    /\ x.pass = "source" /\ ~x.dry /\ x.content # "-"
    /\ faults = 0 /\ ~overlap

Relocated(x) ==
    /\ x.status = "moved"
    /\ x.dstAfter = x.content /\ x.srcAfter = "-" /\ x.over = "-"

----------------------------------------------------------------------------
(* Properties of the watcher                                               *)

\* C3: inside the watcher at most one pipeline run is executing at any time.
C3_OneRunAtATime == Cardinality(WatcherRuns) <= 1

\* C4: a watcher run and an independently started batch run are never in
\* progress at the same time.
C4_BatchExcludesWatcher == batch = "idle" \/ WatcherRuns = {}

Apart(i, j) ==
    IF trigs[i].time >= trigs[j].time
    THEN trigs[i].time - trigs[j].time
    ELSE trigs[j].time - trigs[i].time

SameKindPairs ==
    {p \in (1..Len(trigs)) \X (1..Len(trigs)) :
        p[1] < p[2] /\ trigs[p[1]].kind = trigs[p[2]].kind}

\* C8 as stated: of two triggers of one kind that reach the gate within
\* MIN_RUN_INTERVAL of each other, exactly one starts a run.
C8_ExactlyOne ==
    \A p \in SameKindPairs :
        Apart(p[1], p[2]) < MIN_RUN_INTERVAL =>
            trigs[p[1]].admitted # trigs[p[2]].admitted

\* C8: of two triggers of one kind within MIN_RUN_INTERVAL of each other at
\* most one starts a run, so any two admitted ones are at least
\* MIN_RUN_INTERVAL apart; and a trigger is dropped only when a run of its
\* kind was admitted, before it at the gate, less than MIN_RUN_INTERVAL
\* before its trigger time.
C8_Throttle ==
    /\ \A p \in SameKindPairs :
          trigs[p[1]].admitted /\ trigs[p[2]].admitted =>
              trigs[p[2]].time - trigs[p[1]].time >= MIN_RUN_INTERVAL
    /\ \A j \in 1..Len(trigs) :
          ~trigs[j].admitted =>
              \E i \in 1..(j - 1) :
                  /\ trigs[i].kind = trigs[j].kind /\ trigs[i].admitted
                  /\ trigs[j].time - trigs[i].time < MIN_RUN_INTERVAL

\* two triggers of one kind within the interval: the first admitted, the
\* second dropped
C8_Witness ==
    \E p \in SameKindPairs :
        /\ Apart(p[1], p[2]) < MIN_RUN_INTERVAL
        /\ trigs[p[1]].admitted /\ ~trigs[p[2]].admitted

\* C9: while a file's debounce timer is armed further events for it start no
\* second timer thread, and a timer thread that found the size stable calls
\* the organizer exactly once.
C9_OneTimerOneDispatch ==
    /\ \A f \in WFiles :
          Cardinality({t \in Tids : thr[t].pc = "debounce" /\ thr[t].f = f}) <= 1
    /\ \A f \in WFiles :
          f \in pending_files <=> \E t \in Tids : thr[t].pc = "debounce" /\ thr[t].f = f
    /\ \A t \in Tids :
          /\ thr[t].calls <= 1
          /\ thr[t].pc = "done" /\ thr[t].verdict = "stable" => thr[t].calls = 1

\* a thread whose timer absorbed a further event has dispatched its file
C9_Witness ==
    \E t \in Tids :
        /\ thr[t].pc = "done" /\ thr[t].verdict = "stable"
        /\ thr[t].dups > 0 /\ thr[t].calls = 1

\* C10: a timer thread that found the file gone, or its size changing
\* between the two samples, never calls the organizer.
C10_UnstableNotDispatched ==
    \A t \in Tids :
        thr[t].verdict \in {"vanished", "changing"} => thr[t].calls = 0

\* one thread has ended on a vanished file, another on a changing one
C10_Witness ==
    \E t, u \in Tids :
        /\ thr[t].pc = "done" /\ thr[t].verdict = "changing"
        /\ thr[u].pc = "done" /\ thr[u].verdict = "vanished"

----------------------------------------------------------------------------
(* Date resolution                                                         *)

\* the sources in the order of the written ranking
Ranking == <<"html", "sidecar", "exif", "mtime", "now">>

\* what a source holds for a file, by itself
Holds(d, source) ==
    CASE source = "html" -> d.html = "hit"
      [] source = "sidecar" -> \/ d.side1 = "date"
                               \/ d.side1 = "absent" /\ d.side2 = "date"
      [] source = "exif" -> \E i \in 1..Len(DateFields) : d.exif[i] = "ok"
      [] source = "mtime" -> d.mtime = "ok"
      [] source = "now" -> TRUE

\* the source a returned date belongs to
SourceOfDate(date) ==
    CASE date = "html" -> "html"
      [] date \in {"side1", "side2"} -> "sidecar"
      [] date \in {DateFields[i] : i \in 1..Len(DateFields)} -> "exif"
      [] date = "mtime" -> "mtime"
      [] date = "now" -> "now"

\* the provenance a returned method names
SourceOfMethod(method) ==
    CASE method = "Facebook HTML index" -> "html"
      [] method = "facebook sidecar" -> "sidecar"
      [] method = "EXIF" -> "exif"
      [] method = "file modification time" -> "mtime"
      [] method = "current date (fallback)" -> "now"

\* C11: get_media_date returns the date and the provenance of the
\* highest-ranked source that holds a date, in the order HTML index, sidecar,
\* embedded metadata, file modification time, current time; the sources it
\* has read are exactly those down to the one returned, in that order.
C11_HighestRankedSource ==
    out.fn = "get_media_date" =>
        \E k \in 1..Len(Ranking) :
            /\ Holds(doc, Ranking[k])
            /\ \A j \in 1..(k - 1) : ~Holds(doc, Ranking[j])
            /\ SourceOfDate(out.val.date) = Ranking[k]
            /\ SourceOfMethod(out.val.method) = Ranking[k]
            /\ out.val.consulted = SubSeq(Ranking, 1, k)

\* C11: a file with a sidecar date and a different embedded date, and no
\* index entry, got the sidecar's date.
C11_Witness ==
    /\ out.fn = "get_media_date"
    /\ doc.html # "hit"
    /\ Holds(doc, "sidecar") /\ Holds(doc, "exif")
    /\ out.val.method = "facebook sidecar"
    /\ out.val.date \in {"side1", "side2"}

----------------------------------------------------------------------------
(* Dates and relocation                                                    *)

\* nothing but the date stands in the way of the relocation of d
Unhindered(d) == ~d.dry /\ d.mkdir = "ok" /\ d.move = "ok" /\ d.taken = "no"

\* no date source of the PDF d yields a date
Dateless(d) == (Readable(d) => d.textYear = NoYear) /\ d.nameYear = NoYear

\* a type or a category takes the PDF d
Classified(d) ==
    \/ DetectDocumentType(d) # NoType
    \/ Accepts(CategorizeDocument(d).category, CategorizeDocument(d).confidence)

\* C12: a classified file none of whose date sources yields a date is still
\* relocated, under the current time: a media file gets the current date,
\* and a PDF of a type or of a category that nothing else hinders is moved,
\* under the current year.
C12_DatelessStillRelocated ==
    /\ out.fn = "get_media_date"
       /\ (\A k \in 1..(Len(Ranking) - 1) : ~Holds(doc, Ranking[k]))
       => out.val.date = "now"
    /\ out.fn = "process_single_pdf" /\ Classified(doc) /\ Dateless(doc) /\ Unhindered(doc)
       => out.val.moved /\ out.val.yearFrom = "now"

\* the media files whose date bears the method m
MediaBearing(m) == {d \in MediaDocs : MediaDateOf(d).method = m}

\* the PDFs whose processing returns the dictionary x
PdfsReturning(x) == {d \in ProcessDocs : ProcessSinglePdf(d).result = x}

\* C13: whenever the date of the destination is the current time, what the
\* caller gets tells so: no file dated from another source comes back with
\* the same method (media) or the same dictionary (a PDF with a year).
C13_FallbackIsTold ==
    /\ out.fn = "get_media_date" /\ out.val.date = "now"
       => \A d \in MediaBearing(out.val.method) : MediaDateOf(d).date = "now"
    /\ out.fn = "process_single_pdf" /\ out.val.yearFrom = "now"
       /\ out.val.result # NoResult
       => \A d \in PdfsReturning(out.val.result) : ProcessSinglePdf(d).yearFrom = "now"

----------------------------------------------------------------------------
(* Classification                                                          *)

\* a phrase of the global exclusions is in the name or in the content that
\* could be read
ExclusionSeen(d) == d.excl = "name" \/ (d.excl = "text" /\ d.text = "ok")

\* C14: with a global exclusion phrase in the name or in the readable
\* content, categorize_document returns no category whatever the topic
\* patterns match, and a file that goes to the topic table is not moved.
C14_ExclusionVetoes ==
    /\ out.fn = "categorize_document" /\ ExclusionSeen(doc)
       => out.val.category = NoCategory /\ out.val.confidence = 0
    /\ out.fn = "process_single_pdf" /\ ExclusionSeen(doc)
       /\ out.val.calls[Len(out.val.calls)] = "categorize_document"
       => /\ out.val.result = NoResult
          /\ ~out.val.moved
          /\ out.listed = "uncategorized_files"

\* C14: a file with a receipt word and an exclusion phrase in its name got
\* no category.
C14_Witness ==
    /\ out.fn = "categorize_document"
    /\ doc.excl = "name"
    /\ "RECEIPTS" \in doc.catName /\ doc.catExcl = {}
    /\ out.val.category = NoCategory

C16_NothingBelow90 ==
    out.fn = "process_single_pdf" /\ out.val.moved
    /\ out.val.result.type = "categorized"
    => out.val.result.confidence >= 90

\* type k takes the file d: a pattern of k is in the name or a keyword in
\* the readable content, and the validation of k, if it has one, passes
Takes(d, k) ==
    /\ k \in d.nameHits \/ (d.text = "ok" /\ k \in d.textHits)
    /\ k \in Validated => (d.text = "ok" /\ k \in d.passes)

\* C17: detect_document_type returns the first type in table order that
\* takes the file, and none if none does; a file a type has taken is never
\* put to the topic table nor categorized, whatever becomes of it.
C17_FirstTypeOnly ==
    /\ out.fn = "detect_document_type"
       => \/ /\ out.val = NoType
             /\ \A i \in 1..Len(TypeTable) : ~Takes(doc, TypeTable[i])
          \/ \E i \in 1..Len(TypeTable) :
                /\ out.val = TypeTable[i]
                /\ Takes(doc, TypeTable[i])
                /\ \A j \in 1..(i - 1) : ~Takes(doc, TypeTable[j])
    /\ out.fn = "process_single_pdf" /\ (\E k \in TypeIds : Takes(doc, k))
       => /\ \A i \in 1..Len(out.val.calls) :
                out.val.calls[i] \notin {"categorize_document", "process_general_document"}
          /\ out.val.result.type # "categorized"
          /\ out.listed # "categorized_files"

\* C17: a file whose first matching type fails its validation was taken by
\* the next type, its processing failed, and though a category would have
\* accepted it, it was not categorized.
C17_Witness ==
    /\ out.fn = "process_single_pdf"
    /\ doc.nameHits = {"STR_RENTAL", "COLONIAL"} /\ ~Takes(doc, "STR_RENTAL")
    /\ Accepts(CategorizeDocument(doc).category, CategorizeDocument(doc).confidence)
    /\ out.val.calls = <<"detect_document_type", "process_bank_statement">>
    /\ out.val.result = NoResult /\ ~out.val.raised
    /\ out.listed = "uncategorized_files"

\* no type takes the PDF d and no category accepts it
Unaccepted(d) ==
    /\ \A k \in TypeIds : ~Takes(d, k)
    /\ LET cat == CategorizeDocument(d)
       IN cat.category = NoCategory \/ cat.confidence < 75

\* C18: a PDF that no type and no category accepts stays where it is,
\* untouched, no folder is made for it, and it is listed as uncategorized.
C18_UnacceptedStays ==
    out.fn = "process_single_pdf" /\ Unaccepted(doc)
    => /\ ~out.val.moved /\ ~out.val.folder /\ ~out.val.raised
       /\ out.val.result = NoResult
       /\ out.listed = "uncategorized_files"

\* C18: a readable PDF that matches nothing was listed as uncategorized.
C18_Witness ==
    /\ out.fn = "process_single_pdf"
    /\ doc.text = "ok" /\ doc.nameHits = {} /\ doc.textHits = {}
    /\ doc.catName = {} /\ doc.catText = {}
    /\ ~doc.dry
    /\ ~out.val.moved
    /\ out.listed = "uncategorized_files"

----------------------------------------------------------------------------
(* Failures within a run                                                   *)

\* C19: a failure on one file never stops the run: a run that is over has
\* left none of the files it had listed unvisited.
C19_RunVisitsEveryFile ==
    \A r \in RunIds : run[r].phase = "done" => run[r].todo = <<>>

\* the attempt x failed: an error result, a move that raised, an exception
Failed(x) ==
    \/ x.status \in {"error", "raised"}
    \/ x.status = "none" /\ x.why = "move raised"

\* C20: every attempt that failed is counted as an error of its run, and
\* not as organized nor as uncategorized.
C20_FailuresAreErrors ==
    \A x \in AllResults : Failed(x) => x.tally = "errors"

----------------------------------------------------------------------------
(* Planning and execution                                                  *)

\* the attempt x ended without a relocation being due: a dry run, a skipped
\* file, a PDF left where it is
NothingDue(x) ==
    \/ x.dry
    \/ x.status = "skipped"
    \/ x.status = "none" /\ x.why # "move raised"

\* C21: detection is read-only: when a file is skipped, or the run is a dry
\* run, building its destination path has created no folder.
C21_PlanningCreatesNothing ==
    \A x \in AllResults : NothingDue(x) => ~x.made

\* the files run r reports with `status` in its source pass, each with the
\* destination reported
Reported(r, status) ==
    {<<x.src, x.dst>> : x \in {y \in results[r] : y.status = status /\ y.pass = "source"}}

\* run 1 was a dry run and run 2 a real run of the same kind that began
\* when run 1 was over, on the files run 1 had left as they were; nothing
\* failed and nothing arrived
DryThenReal ==
    /\ run[1].phase = "done" /\ run[2].phase = "done"
    /\ run[1].kind = run[2].kind
    /\ run[1].dry /\ ~run[2].dry
    /\ 1 \in run[2].after
    /\ faults = 0 /\ arrived = 0 /\ ~overlap

\* C22: from the same filesystem, what a dry run reports as "would move",
\* with the destinations, is what the real run reports as "moved".
C22_DryRunPlansAlike ==
    DryThenReal => Reported(1, "would_move") = Reported(2, "moved")

----------------------------------------------------------------------------
(* The notification sink                                                   *)

\* C23: a media run that is not a dry run and has moved a file ends
\* normally and returns its (photos, videos, audio) counts, whether or not
\* the notification module is available.
C23_NotificationIsOptional ==
    out.fn = "media_organizer.run" /\ ~doc.dry
    /\ doc.photos + doc.videos + doc.audio > 0
    => /\ ~out.val.raised
       /\ out.val.returned = <<doc.photos, doc.videos, doc.audio>>

----------------------------------------------------------------------------
(* The PDF audit pass                                                      *)

\* C26: the audit pass never relocates a file whose computed destination
\* holds another file, of the same content or not: the file stays, the
\* destination keeps what it held, and the file is not reported as moved.
C26_AuditLeavesTaken ==
    out.fn = "audit_tax_folders" /\ doc.place # "path" /\ doc.file.taken # "no"
    => /\ ~out.val.moved
       /\ out.srcAfter = "file"
       /\ out.dstAfter = doc.file.taken
       /\ out.listed # "moved_files"

\* C26: a misplaced statement whose destination held a different file was
\* left alone, in a real run in which nothing failed.
C26_Witness ==
    /\ out.fn = "audit_tax_folders"
    /\ doc.place = "elsewhere" /\ doc.file.taken = "other"
    /\ DetectDocumentType(doc.file) # NoType
    /\ ExtractStatementDate(doc.file).year # NoYear
    /\ ~doc.file.dry /\ doc.file.mkdir = "ok" /\ doc.file.move = "ok"
    /\ ~out.val.moved /\ out.dstAfter = "other"

----------------------------------------------------------------------------
(* The event handler                                                       *)

\* C28: the watcher does not touch a detected file before the debounce
\* delay and the stability check have passed: the handler of the event,
\* which runs before both, renames no file whose download is in progress.
C28_UntouchedBeforeStable ==
    out.fn = "_process_file_event" /\ doc.growing => ~out.val.renamed

\* C29: the rename that gives a PDF its extension never replaces a file:
\* what was at the name with the suffix .pdf is still there.
C29_RenameReplacesNothing ==
    out.fn = "_process_file_event" /\ out.val.renamed /\ doc.target # "absent"
    => out.val.targetAfter = doc.target

----------------------------------------------------------------------------
(* safe_move                                                               *)

\* C30: safe_move never destroys a file that was at the destination before
\* the call, and whenever it returns False the source still exists with its
\* content.
C30_SafeMoveDestroysNothing ==
    out.fn = "safe_move" /\ doc.source # "absent"
    => /\ doc.destination # "absent" /\ ~doc.same => out.val.dstAfter = doc.destination
       /\ ~out.val.returned => out.val.srcAfter = doc.source

----------------------------------------------------------------------------
(* ProcessLock                                                             *)

\* C27: for every interleaving of acquire and release by the processes that
\* use one lock file path, at most one process at a time holds the lock.
C27_MutualExclusion == Cardinality(Holders) <= 1

----------------------------------------------------------------------------
(* The stopped watcher                                                     *)

\* C25: once the watcher has been stopped, no debounce timer thread and no
\* periodic sweep starts a pipeline run: every trigger admitted at the gate
\* was admitted while the watcher was running.
C25_NoRunAfterStop ==
    \A i \in DOMAIN trigs : trigs[i].admitted => trigs[i].state = "running"

----------------------------------------------------------------------------
(* The periodic sweep as a safety net                                      *)

\* a file of the folder is sooner or later covered by a run of its kind, or
\* leaves the folder
Swept(f) == (wf[f].st = "present") ~> (wf[f].st # "present" \/ Covered(f))

\* C24: under fair scheduling every PDF or media file that stays in a watched
\* folder is eventually covered by a pipeline run of its kind that starts
\* after the file arrived, also when its own event was missed.
C24_EveryFileIsSwept == \A f \in LiveFiles : Swept(f)

\* the same for the file whose extension is in lower case
LowerCaseIsSwept == Swept("a.pdf")


====
